---- MODULE Spec2Model ----
(***************************************************************************)
(* MesaMate delivery robot: the motion command protocol and the precision  *)
(* movement state machine.                                                 *)
(*                                                                         *)
(*   Part 1  firmware (robot-control sketch): loop(), moveDistance(),      *)
(*           turnAngle(), checkPrecisionMovement(), checkForObstacles(),   *)
(*           stopMotors() and the legacy FORWARD/LEFT/RIGHT handlers.      *)
(*   Part 2  host controller (main/arduino-communication.ts).              *)
(*   Part 3  renderer planner (components/DeliverySystem.tsx).             *)
(*                                                                         *)
(* Time is in milliseconds.  The lines of the wire protocol and the lines   *)
(* that answer a command ("Received: ...", "Motors stopped", the RESET     *)
(* acknowledgement) are recorded; the diagnostic lines of a motion ("Moving *)
(* ... inches", "Turning ... degrees", the GYRO debug line, the latch's     *)
(* debug lines) are not.  "BLOCKED" stands for the line "BLOCKED: Robot     *)
(* already moving. Send RESET if stuck.".                                   *)
(***************************************************************************)
EXTENDS Integers, Sequences, FiniteSets, TLC

VARIABLES
    dev,        \* firmware globals, motor outputs and the lines printed this tick
    now,        \* millis()
    fpc,        \* block of loop() the firmware executes next: "sense" (top of an
                \* iteration), "command", "check"; "forward": inside moveForward()
    serialIn,   \* bytes waiting in the firmware's Serial buffer, as whole commands
    uplink,     \* lines the firmware printed that the host's parser has not yet
                \* delivered to its 'data' handler (empty while no port is open)
    sent,       \* number of commands written to the link so far
    idle,       \* consecutive loop() iterations with nothing to do
    single,     \* the run is one of a single long primitive
    obs,        \* observer of the wire protocol (history, not program state)
    host,       \* ArduinoController: pose, link state, lines written
    hobs,       \* observer of the host controller's last operation
    rend,       \* DeliverySystem component state
    robs,       \* observer of the renderer planner
    turn        \* one application of a turn-angle computation

vars == <<dev, now, fpc, serialIn, uplink, sent, idle, single, obs, host, hobs, rend,
          robs, turn>>

fwVars == <<dev, now, fpc, serialIn, uplink, sent, idle, single, obs>>
hostVars == <<host, hobs>>
rendVars == <<rend, robs>>

----------------------------------------------------------------------------
(* Bounds of the model *)

MaxTime == 4000          \* loop() iterations start only while millis() <= MaxTime
MaxLongTime == 9000      \* the same, in a run of one long primitive
MaxCommands == 3         \* commands written to the link in one run
MaxSerial == 1           \* commands that may wait in the Serial buffer
MaxIdleTicks == 3        \* loop() iterations in a row with no command and no motion
MaxRequests == 2         \* IPC requests the host controller receives in one run
MaxCalls == 2            \* host handlers that may wait at an await at once
MaxRouteLen == 3         \* segments of a delivery route
SendTickMs == 2500       \* step in which the time a write has waited is counted
MaxLate == 1             \* callbacks outstanding for sends that have settled, per kind
MaxTelemetry == 1        \* RESET commands the 'data' handler sends in one run
MaxStops == 3            \* tables of one delivery, for the pathfinder's routes

\* time one checkForObstacles() call takes: 15 pulse reads + 2 x 50 ms + 15 x 5 ms
UtsDurations == {490}

\* one sampling cycle: the readings of UTS1, UTS2, UTS3 in cm; 20 is below the
\* trigger distance, 21 inside the hysteresis band, 26 above trigger + margin
SensorReadings == { <<26, 26, 26>>, <<26, 20, 21>>, <<26, 26, 21>> }

Distances == {3}              \* inches of MOVE_DISTANCE commands sent at any time
LongDistances == {24}         \* inches of a MOVE_DISTANCE that is the only command
Angles == {90}                \* degrees of TURN_ANGLE commands sent at any time
LongAngles == {-180}      \* degrees of TURN_ANGLE commands

\* readings of the accelerometer over the whole range of int16_t: the ends of
\* the range, the values around which x - normalX and y - normalY overflow,
\* and those around the tolerance and around the caps of the two corrections
TiltXs == { -(2^15), -(2^15) + 12, -(2^15) + 13, -111, 8, 9, 17, 18, 133, 2^15 - 1 }
TiltYs == { -(2^15), -(2^15) + 171, -(2^15) + 172, 62, 167, 168, 176, 177, 2^15 - 1 }

\* what an overflow of the 16-bit int leaves: the wrapped value, or any value v
\* (signed overflow is undefined)
Wraps == [wrap |-> TRUE, v |-> 0]

\* accelerometer readings: a failed read, tilted right
AccelReadings ==
    { [ok |-> FALSE, x |-> 0, y |-> 0, ub |-> Wraps],
      [ok |-> TRUE, x |-> 53, y |-> 172, ub |-> Wraps] }

Cmd(o, a) == [op |-> o, arg |-> a]

\* the commands the firmware may find in its Serial buffer
PrecisionCommands ==
    {Cmd("MOVE_DISTANCE", d) : d \in Distances}
        \cup {Cmd("TURN_ANGLE", a) : a \in Angles}
        \cup {Cmd(o, 0) : o \in {"STOP", "RESET"}}

LegacyCommands == {Cmd(o, 0) : o \in {"FORWARD", "LEFT", "RIGHT"}}

\* a run of one long primitive and no command after it
SingleCommands ==
    {Cmd("MOVE_DISTANCE", d) : d \in LongDistances}
        \cup {Cmd("TURN_ANGLE", a) : a \in LongAngles}

----------------------------------------------------------------------------
(* Part 1: firmware constants *)

turnSpeed == 120
precisionSpeed == 150
baseLeft == 180
baseRight == 180
normalX == 13
normalY == 172
tolerance == 4
UTS_ENABLED == TRUE
OBSTACLE_DISTANCE_CM_x100 == 2032
CLEAR_HYSTERESIS_CM_x100 == 500
REQUIRED_CONSECUTIVE_HITS == 3
forwardTime == 1000
turnTime == 500
LoopDelayMs == 10
ForwardDelayMs == 50

\* MS_PER_INCH = 1000.0 / 3.0 as a 32-bit float is 10922667 / 2^15
MS_PER_INCH_NUM == 10922667
MS_PER_INCH_DEN == 32768
\* DEGREES_PER_MS = 90.0 / 500.0 as a 32-bit float is 3019899 / 2^24
DEGREES_PER_MS_NUM == 3019899
DEGREES_PER_MS_DEN == 16777216

Abs(x) == IF x < 0 THEN -x ELSE x
Min(a, b) == IF a < b THEN a ELSE b
Max(a, b) == IF a > b THEN a ELSE b
constrain(x, lo, hi) == IF x < lo THEN lo ELSE IF x > hi THEN hi ELSE x

\* (unsigned long)(inches * MS_PER_INCH)
\* the duration at 4 inches per second, the speed the README quotes
MoveTimeMsAtFourInchesPerSecond(inches) == inches * 250

MoveTimeMs(inches) == (inches * MS_PER_INCH_NUM) \div MS_PER_INCH_DEN

\* (unsigned long)(abs(degrees) / DEGREES_PER_MS); the product is split so that
\* it stays inside 32 bits
TurnTimeMs(degrees) ==
    LET a == Abs(degrees)
        q == DEGREES_PER_MS_DEN \div DEGREES_PER_MS_NUM
        r == DEGREES_PER_MS_DEN % DEGREES_PER_MS_NUM
    IN a * q + (a * r) \div DEGREES_PER_MS_NUM

\* unsigned long subtraction a - b.  Every time of the model is below 2^31; a
\* wrapped difference (a < b) is 2^32 - (b - a), larger than every target time,
\* and is represented by the largest value available.
ULongSub(a, b) == IF a >= b THEN a - b ELSE 2147483647 - (b - a)

Stopped == [dir |-> "stop", pwm |-> 0]
Drive(d, p) == [dir |-> d, pwm |-> p]

Emit(m, line) == [m EXCEPT !.out = Append(@, line)]

Has(lines, line) == \E i \in 1..Len(lines) : lines[i] = line

Count(lines, line) == Cardinality({i \in 1..Len(lines) : lines[i] = line})

DevInit ==
    [ isMoving |-> FALSE,
      currentCommand |-> "STOP",
      movementStartTime |-> 0,
      targetDistance |-> 0,
      targetAngle |-> 0,
      isPrecisionMode |-> FALSE,
      pausedForObstacle |-> FALSE,
      pauseStartTime |-> 0,
      totalPausedMs |-> 0,
      obstacleHitCount |-> 0,
      clearHitCount |-> 0,
      obstacleLatched |-> FALSE,
      lastObstacle |-> FALSE,
      fwdStart |-> 0,
      left |-> Stopped,
      right |-> Stopped,
      out |-> <<>> ]

\* stopMotors(): clears isMoving, records "STOP", both motors off
\* stopMotors() that halts the H-bridge but leaves the movement flags alone
stopMotorsKeepsFlags(m) ==
    Emit([m EXCEPT !.left = Stopped,
                   !.right = Stopped],
         "Motors stopped")

\* stopMotors() that clears isMoving and leaves currentCommand as it was
stopMotorsKeepsCommand(m) ==
    Emit([m EXCEPT !.isMoving = FALSE,
                   !.left = Stopped,
                   !.right = Stopped],
         "Motors stopped")

stopMotors(m) ==
    Emit([m EXCEPT !.isMoving = FALSE,
                   !.currentCommand = "STOP",
                   !.left = Stopped,
                   !.right = Stopped],
         "Motors stopped")

\* checkForObstacles(): one sampling cycle of the three sensors, then the
\* debounce counters and the latch
checkForObstacles(m, d1, d2, d3) ==
    LET anyBelow == \/ d1 * 100 < OBSTACLE_DISTANCE_CM_x100
                    \/ d2 * 100 < OBSTACLE_DISTANCE_CM_x100
                    \/ d3 * 100 < OBSTACLE_DISTANCE_CM_x100
        allClearWithMargin ==
                    /\ d1 * 100 > OBSTACLE_DISTANCE_CM_x100 + CLEAR_HYSTERESIS_CM_x100
                    /\ d2 * 100 > OBSTACLE_DISTANCE_CM_x100 + CLEAR_HYSTERESIS_CM_x100
                    /\ d3 * 100 > OBSTACLE_DISTANCE_CM_x100 + CLEAR_HYSTERESIS_CM_x100
        hit == IF anyBelow THEN Min(m.obstacleHitCount + 1, REQUIRED_CONSECUTIVE_HITS)
               ELSE IF allClearWithMargin THEN 0
               ELSE m.obstacleHitCount
        clr == IF anyBelow THEN 0
               ELSE IF allClearWithMargin
                    THEN Min(m.clearHitCount + 1, REQUIRED_CONSECUTIVE_HITS)
               ELSE m.clearHitCount
        l1 == IF ~m.obstacleLatched /\ hit >= REQUIRED_CONSECUTIVE_HITS
              THEN TRUE ELSE m.obstacleLatched
        l2 == IF l1 /\ clr >= REQUIRED_CONSECUTIVE_HITS THEN FALSE ELSE l1
    IN [m EXCEPT !.obstacleHitCount = hit,
                 !.clearHitCount = clr,
                 !.obstacleLatched = l2]

\* a publish step that prints the latch on every cycle it differs from the
\* first state and never records what it printed
PublishObstaclePerSample(m) ==
    IF m.obstacleLatched # m.lastObstacle
    THEN Emit(m, IF m.obstacleLatched THEN "OBSTACLE:DETECTED" ELSE "OBSTACLE:CLEARED")
    ELSE m

\* loop(), first block: publish a change of the latch
PublishObstacle(m) ==
    IF m.obstacleLatched # m.lastObstacle
    THEN [Emit(m, IF m.obstacleLatched THEN "OBSTACLE:DETECTED" ELSE "OBSTACLE:CLEARED")
            EXCEPT !.lastObstacle = m.obstacleLatched]
    ELSE m

\* moveDistance(inches) called at millis() = t
\* a moveDistance() that restarts the clock of the motion it refuses to replace
moveDistanceBlockedRestarts(m, inches, t) ==
    IF m.isMoving
    THEN Emit([m EXCEPT !.movementStartTime = t], "BLOCKED")
    ELSE [m EXCEPT !.isMoving = TRUE,
                   !.isPrecisionMode = TRUE,
                   !.currentCommand = "MOVE_DISTANCE",
                   !.targetDistance = inches,
                   !.movementStartTime = t,
                   !.pausedForObstacle = FALSE,
                   !.totalPausedMs = 0]

moveDistance(m, inches, t) ==
    IF m.isMoving
    THEN Emit(m, "BLOCKED")
    ELSE [m EXCEPT !.isMoving = TRUE,
                   !.isPrecisionMode = TRUE,
                   !.currentCommand = "MOVE_DISTANCE",
                   !.targetDistance = inches,
                   !.movementStartTime = t,
                   !.pausedForObstacle = FALSE,
                   !.totalPausedMs = 0]

\* a turnAngle() that sets isMoving and leaves isPrecisionMode as it was
turnAngleNotPrecision(m, degrees, t) ==
    IF m.isMoving
    THEN Emit(m, "BLOCKED")
    ELSE [m EXCEPT !.isMoving = TRUE,
                   !.currentCommand = "TURN_ANGLE",
                   !.targetAngle = degrees,
                   !.movementStartTime = t,
                   !.left = IF degrees > 0 THEN Drive("fwd", turnSpeed)
                                           ELSE Drive("rev", turnSpeed),
                   !.right = IF degrees > 0 THEN Drive("rev", turnSpeed)
                                            ELSE Drive("fwd", turnSpeed)]

\* turnAngle(degrees) called at millis() = t
turnAngle(m, degrees, t) ==
    IF m.isMoving
    THEN Emit(m, "BLOCKED")
    ELSE [m EXCEPT !.isMoving = TRUE,
                   !.isPrecisionMode = TRUE,
                   !.currentCommand = "TURN_ANGLE",
                   !.targetAngle = degrees,
                   !.movementStartTime = t,
                   !.left = IF degrees > 0 THEN Drive("fwd", turnSpeed)
                                           ELSE Drive("rev", turnSpeed),
                   !.right = IF degrees > 0 THEN Drive("rev", turnSpeed)
                                            ELSE Drive("fwd", turnSpeed)]

\* int of the ATmega: 16 bits, two's complement
IntMin == -(2^15)
IntMax == 2^15 - 1

\* the int result of an operation whose exact value is v
IntResult(v, ub) ==
    IF v \in IntMin..IntMax THEN v
    ELSE IF ub.wrap THEN ((v - IntMin) % 2^16) + IntMin
    ELSE ub.v

\* the abs() macro: ((x) > 0 ? (x) : -(x))
IntAbs(a, ub) == IF a > 0 THEN a ELSE IntResult(-a, ub)

\* int division, which truncates towards zero
IntDiv(a, b) == IF a >= 0 THEN a \div b ELSE -((-a) \div b)

\* a tilt correction whose boost is not constrained before it is added
TiltSpeedsBoostUnconstrained(x, y, ub) ==
    LET deltaX == IntResult(x - normalX, ub)
        deltaY == IntResult(y - normalY, ub)
        boost == IntDiv(IntAbs(deltaX, ub), 4)
        l1 == IF deltaX > tolerance THEN precisionSpeed
              ELSE IF deltaX < -tolerance THEN precisionSpeed + boost
              ELSE precisionSpeed
        r1 == IF deltaX > tolerance THEN precisionSpeed + boost ELSE precisionSpeed
        adjust == IF IntAbs(deltaY, ub) > tolerance
                  THEN constrain(IntDiv(IntAbs(deltaY, ub), 10), 0, 10) ELSE 0
    IN <<constrain(l1 - adjust, 100, 255), constrain(r1 - adjust, 100, 255)>>

\* the tilt correction of checkPrecisionMovement(): PWM of the left and right
\* motor for one accelerometer reading (x, y), both int16_t
TiltSpeeds(x, y, ub) ==
    LET deltaX == IntResult(x - normalX, ub)
        deltaY == IntResult(y - normalY, ub)
        boost == constrain(IntDiv(IntAbs(deltaX, ub), 4), 0, 30)
        l1 == IF deltaX > tolerance THEN precisionSpeed
              ELSE IF deltaX < -tolerance THEN precisionSpeed + boost
              ELSE precisionSpeed
        r1 == IF deltaX > tolerance THEN precisionSpeed + boost ELSE precisionSpeed
        adjust == IF IntAbs(deltaY, ub) > tolerance
                  THEN constrain(IntDiv(IntAbs(deltaY, ub), 10), 0, 10) ELSE 0
    IN <<constrain(l1 - adjust, 100, 255), constrain(r1 - adjust, 100, 255)>>

\* drive both motors forward: corrected when readAccel() succeeds, at
\* precisionSpeed when it fails
DriveForward(m, acc) ==
    IF acc.ok
    THEN [m EXCEPT !.left = Drive("fwd", TiltSpeeds(acc.x, acc.y, acc.ub)[1]),
                   !.right = Drive("fwd", TiltSpeeds(acc.x, acc.y, acc.ub)[2])]
    ELSE [m EXCEPT !.left = Drive("fwd", precisionSpeed),
                   !.right = Drive("fwd", precisionSpeed)]

\* currentTime - movementStartTime - totalPausedMs, read on entry
EffectiveElapsed(m, t) == ULongSub(ULongSub(t, m.movementStartTime), m.totalPausedMs)

\* checkPrecisionMovement(), MOVE_DISTANCE branch after the obstacle check:
\* pause on an active latch, resume and drive otherwise
PauseOrDrive(m, t, acc) ==
    IF UTS_ENABLED /\ m.obstacleLatched
    THEN IF ~m.pausedForObstacle
         THEN Emit([stopMotors(m) EXCEPT !.pausedForObstacle = TRUE,
                                         !.pauseStartTime = t],
                   "MOVEMENT_PAUSED:OBSTACLE")
         ELSE m
    ELSE LET m1 == IF m.pausedForObstacle
                   THEN Emit([m EXCEPT !.totalPausedMs = @ + ULongSub(t, m.pauseStartTime),
                                       !.pausedForObstacle = FALSE],
                             "MOVEMENT_RESUMED")
                   ELSE m
         IN DriveForward(m1, acc)

\* the completion test without its "not paused" condition
MoveShouldStopEvenPaused(m, elapsed) ==
    elapsed >= MoveTimeMs(m.targetDistance)

\* "Only check completion when not paused"
MoveShouldStop(m, elapsed) ==
    ~m.pausedForObstacle /\ elapsed >= MoveTimeMs(m.targetDistance)

\* a turn whose completion test has the "not paused" condition of a move
TurnShouldStopUnlessPaused(m, elapsed) ==
    ~m.pausedForObstacle /\ elapsed >= TurnTimeMs(m.targetAngle)

TurnShouldStop(m, elapsed) == elapsed >= TurnTimeMs(m.targetAngle)

\* a completion that prints its line and leaves the motion in flight
FinishMovementStillMoving(m) == Emit(m, "MOVEMENT_COMPLETE:SUCCESS")

\* shouldStop: report completion, stop the motors, leave precision mode
FinishMovement(m) ==
    [stopMotors(Emit(m, "MOVEMENT_COMPLETE:SUCCESS")) EXCEPT !.isPrecisionMode = FALSE]

\* checkPrecisionMovement() entered at millis() = t; the sensors read (d1,d2,d3)
\* and the accelerometer acc during the call
checkPrecisionMovement(m, t, d1, d2, d3, acc) ==
    LET elapsed == EffectiveElapsed(m, t)
    IN IF m.currentCommand = "MOVE_DISTANCE"
       THEN LET m1 == IF UTS_ENABLED THEN checkForObstacles(m, d1, d2, d3) ELSE m
                m2 == PauseOrDrive(m1, t, acc)
            IN IF MoveShouldStop(m2, elapsed) THEN FinishMovement(m2) ELSE m2
       ELSE IF m.currentCommand = "TURN_ANGLE"
       THEN IF TurnShouldStop(m, elapsed) THEN FinishMovement(m) ELSE m
       ELSE m

\* turnLeft() / turnRight(): blocking, delay(turnTime) inside the handler
turnLegacy(m) ==
    IF m.isMoving THEN Emit(m, "BLOCKED") ELSE stopMotors(m)

\* a RESET branch that runs the motors for an instant to release them
resetStatePulsing(m) ==
    Emit([stopMotors(m) EXCEPT !.isMoving = FALSE,
                               !.isPrecisionMode = FALSE,
                               !.pausedForObstacle = FALSE,
                               !.currentCommand = "STOP",
                               !.left = Drive("rev", turnSpeed),
                               !.right = Drive("rev", turnSpeed)],
         "Robot state RESET - ready for commands")

\* the RESET branch of loop()
resetState(m) ==
    Emit([stopMotors(m) EXCEPT !.isMoving = FALSE,
                               !.isPrecisionMode = FALSE,
                               !.pausedForObstacle = FALSE,
                               !.currentCommand = "STOP"],
         "Robot state RESET - ready for commands")


\* the tilt correction of moveForward() (legacy FORWARD)
ForwardSpeeds(x, y) ==
    LET deltaX == x - normalX
        deltaY == y - normalY
        boost == constrain(Abs(deltaX) \div 4, 0, 25)
        l1 == IF deltaX > tolerance THEN baseLeft
              ELSE IF deltaX < -tolerance THEN baseLeft + boost
              ELSE baseLeft
        r1 == IF deltaX > tolerance THEN baseRight + boost ELSE baseRight
        adjust == IF Abs(deltaY) > tolerance
                  THEN constrain(Abs(deltaY) \div 10, 0, 8) ELSE 0
    IN <<constrain(l1 - adjust, 100, 255), constrain(r1 - adjust, 100, 255)>>

\* moveForward(), entry: guard, then isMoving and the start time of its loop
moveForwardStart(m, t) ==
    IF m.isMoving
    THEN Emit(m, "BLOCKED")
    ELSE [m EXCEPT !.isMoving = TRUE, !.currentCommand = "FORWARD", !.fwdStart = t]

\* moveForward(), one pass of its while loop that found no obstacle
moveForwardDrive(m, acc) ==
    IF acc.ok
    THEN [m EXCEPT !.left = Drive("fwd", ForwardSpeeds(acc.x, acc.y)[1]),
                   !.right = Drive("fwd", ForwardSpeeds(acc.x, acc.y)[2])]
    ELSE [m EXCEPT !.left = Drive("fwd", baseLeft),
                   !.right = Drive("fwd", baseRight)]

----------------------------------------------------------------------------
(* Observer of the wire protocol.  It follows the four states of the       *)
(* controller from what the firmware read and printed, not from the        *)
(* firmware's flags.                                                       *)

ObsInit ==
    [ lastReset |-> FALSE,       \* the last command read was a RESET,
      resetTwice |-> FALSE,      \* and so was the one before it
      acc |-> [ok |-> FALSE, x |-> 0, y |-> 0, ub |-> Wraps],
                                 \* the accelerometer reading of the last drive
      state |-> "IDLE",          \* IDLE, MOVING, TURNING, PAUSED
      target |-> 0,              \* inches or degrees of the primitive in flight
      acceptedAt |-> 0,          \* millis() when it was accepted
      pausedAt |-> 0,            \* millis() of its MOVEMENT_PAUSED line
      pausedMs |-> 0,            \* time it has spent paused and resumed from
      pauseLines |-> 0,          \* MOVEMENT_PAUSED lines of the current pause
      cmd |-> "none",            \* command read on this tick
      stateAtRead |-> "IDLE",    \* observer state when that command was read
      accepted |-> FALSE,        \* it was not answered with BLOCKED
      afterEscape |-> "none",    \* the command read before it was a STOP or RESET
                                 \* read in this observer state ("none": it was not)
      escaped |-> "none",        \* the same for the most recent command read
      rejectedInFlight |-> FALSE,   \* a command was answered BLOCKED while the
                                 \* primitive in flight was MOVING or TURNING
      clearedAt |-> 0,           \* millis() of an OBSTACLE:CLEARED printed while PAUSED
      cleared |-> FALSE,
      checked |-> "none",        \* primitive checkPrecisionMovement() ran for
      latchAtCheck |-> FALSE,    \* the latch as that call saw it
      completed |-> "none",      \* primitive a MOVEMENT_COMPLETE of this tick ended
      completedArg |-> 0,
      elapsedAtComplete |-> 0,
      hitRun |-> 0,              \* hit cycles in a row up to the most recent cycle,
      clearRun |-> 0,            \* clear cycles likewise (both counted up to N)
      kind |-> "none",           \* kind of the most recent cycle
      rose |-> FALSE,            \* the most recent cycle set the latch
      fell |-> FALSE,            \* the most recent cycle cleared the latch
      unpublished |-> 0,         \* changes of the latch minus OBSTACLE lines printed
      lastLine |-> "OBSTACLE:CLEARED",   \* the last OBSTACLE line (none yet: as cleared)
      alternates |-> TRUE ]      \* no OBSTACLE line has repeated the one before it

\* an OBSTACLE:DETECTED or OBSTACLE:CLEARED line is printed
ObsPublished(o, line) ==
    [o EXCEPT !.unpublished = @ - 1,
              !.lastLine = line,
              !.alternates = @ /\ line # o.lastLine]

\* one telemetry line printed at millis() = t
ObsLine(o, line, t) ==
    IF line = "OBSTACLE:DETECTED"
    THEN ObsPublished(o, line)
    ELSE IF line = "OBSTACLE:CLEARED"
    THEN LET o1 == ObsPublished(o, line)
         IN IF o.state = "PAUSED" /\ ~o.cleared
            THEN [o1 EXCEPT !.cleared = TRUE, !.clearedAt = t]
            ELSE o1
    ELSE IF line = "MOVEMENT_PAUSED:OBSTACLE"
    THEN [o EXCEPT !.state = "PAUSED", !.pausedAt = t, !.pauseLines = @ + 1,
                   !.cleared = FALSE]
    ELSE IF line = "MOVEMENT_RESUMED"
    THEN [o EXCEPT !.state = "MOVING", !.pausedMs = @ + (t - o.pausedAt),
                   !.pauseLines = 0]
    ELSE IF line = "MOVEMENT_COMPLETE:SUCCESS"
    THEN [o EXCEPT !.state = "IDLE",
                   !.completed = IF o.state = "TURNING" THEN "TURN_ANGLE"
                                 ELSE IF o.state = "IDLE" THEN "spurious"
                                 ELSE "MOVE_DISTANCE",
                   !.completedArg = o.target,
                   !.elapsedAtComplete = t - o.acceptedAt - o.pausedMs,
                   !.pauseLines = 0]
    ELSE o

RECURSIVE ObsLines(_, _, _)
ObsLines(o, lines, t) ==
    IF lines = <<>> THEN o ELSE ObsLines(ObsLine(o, Head(lines), t), Tail(lines), t)

\* a command read at millis() = t and answered with the lines `lines`
ObsCommand(o, c, lines, t) ==
    LET ok == ~Has(lines, "BLOCKED")
        o1 == [o EXCEPT !.cmd = c.op, !.stateAtRead = o.state, !.accepted = ok,
                        !.lastReset = c.op = "RESET",
                        !.resetTwice = c.op = "RESET" /\ o.lastReset,
                        !.afterEscape = o.escaped,
                        !.escaped = IF c.op \in {"STOP", "RESET"} THEN o.state
                                    ELSE "none"]
    IN IF c.op \in {"STOP", "RESET"}
       THEN [o1 EXCEPT !.state = "IDLE", !.pauseLines = 0, !.rejectedInFlight = FALSE]
       ELSE IF ~ok
       THEN [o1 EXCEPT !.rejectedInFlight = @ \/ o.state \in {"MOVING", "TURNING"}]
       ELSE IF c.op = "MOVE_DISTANCE"
       THEN [o1 EXCEPT !.state = "MOVING", !.target = c.arg, !.acceptedAt = t,
                       !.pausedMs = 0, !.pauseLines = 0, !.rejectedInFlight = FALSE]
       ELSE IF c.op = "TURN_ANGLE"
       THEN [o1 EXCEPT !.state = "TURNING", !.target = c.arg, !.acceptedAt = t,
                       !.pausedMs = 0, !.pauseLines = 0, !.rejectedInFlight = FALSE]
       ELSE [o1 EXCEPT !.state = "IDLE", !.pauseLines = 0, !.rejectedInFlight = FALSE]

\* the lines appended to `before` to give `after`
NewLines(before, after) == SubSeq(after, Len(before) + 1, Len(after))

----------------------------------------------------------------------------
(* Firmware actions *)

\* "Received: " + command, without the digits of an argument
Echo(c) ==
    CASE c.op = "MOVE_DISTANCE" -> "Received: MOVE_DISTANCE:"
      [] c.op = "TURN_ANGLE" -> "Received: TURN_ANGLE:"
      [] c.op = "FORWARD" -> "Received: FORWARD"
      [] c.op = "LEFT" -> "Received: LEFT"
      [] c.op = "RIGHT" -> "Received: RIGHT"
      [] c.op = "STOP" -> "Received: STOP"
      [] OTHER -> "Received: RESET"

\* the lines printed reach the parser of the host when it has a port
Uplink(lines) == IF host.port THEN uplink \o lines ELSE uplink

\* the handler loop() dispatches a command to
Dispatch(m, c, t) ==
    IF c.op = "MOVE_DISTANCE" THEN moveDistance(m, c.arg, t)
    ELSE IF c.op = "TURN_ANGLE" THEN turnAngle(m, c.arg, t)
    ELSE IF c.op = "FORWARD" THEN moveForwardStart(m, t)
    ELSE IF c.op \in {"LEFT", "RIGHT"} THEN turnLegacy(m)
    ELSE IF c.op = "STOP" THEN stopMotors(m)
    ELSE IF c.op = "RESET" THEN resetState(m)
    ELSE m

\* loop(), first block: "Publish obstacle state changes continuously"
LoopSense(m, sr) ==
    IF UTS_ENABLED
    THEN PublishObstacle(checkForObstacles(m, sr[1], sr[2], sr[3]))
    ELSE m

\* loop(), last block: "if (isMoving && isPrecisionMode) checkPrecisionMovement()"
LoopCheck(m, t, sr, acc) ==
    IF m.isMoving /\ m.isPrecisionMode
    THEN checkPrecisionMovement(m, t, sr[1], sr[2], sr[3], acc)
    ELSE m

\* the observer after the last block of loop(), entered at millis() = t
ObsCheck(o, before, after, t) ==
    IF before.isMoving /\ before.isPrecisionMode
    THEN ObsLines([o EXCEPT !.checked = before.currentCommand,
                            !.latchAtCheck = after.obstacleLatched],
                  NewLines(before.out, after.out), t)
    ELSE o

\* a sampling cycle by its readings: a hit has a sensor below the trigger
\* distance, a clear cycle has all three above trigger plus margin
CycleKind(sr) ==
    IF \E i \in 1..3 : sr[i] * 100 < OBSTACLE_DISTANCE_CM_x100 THEN "hit"
    ELSE IF \A i \in 1..3 :
               sr[i] * 100 > OBSTACLE_DISTANCE_CM_x100 + CLEAR_HYSTERESIS_CM_x100
    THEN "clear"
    ELSE "band"

\* the observer after a call of checkForObstacles() that read sr
ObsCycle(o, before, after, sr) ==
    LET k == CycleKind(sr)
    IN [o EXCEPT !.kind = k,
                 !.hitRun = IF k = "hit"
                            THEN Min(@ + 1, REQUIRED_CONSECUTIVE_HITS) ELSE 0,
                 !.clearRun = IF k = "clear"
                              THEN Min(@ + 1, REQUIRED_CONSECUTIVE_HITS) ELSE 0,
                 !.rose = ~before.obstacleLatched /\ after.obstacleLatched,
                 !.fell = before.obstacleLatched /\ ~after.obstacleLatched,
                 !.unpublished = IF before.obstacleLatched # after.obstacleLatched
                                 THEN @ + 1 ELSE @]

\* what the observer keeps of one iteration of loop() is dropped at the next
ObsTick(o) ==
    [o EXCEPT !.cmd = "none", !.stateAtRead = "IDLE", !.accepted = FALSE,
              !.afterEscape = "none",
              !.checked = "none", !.latchAtCheck = FALSE, !.completed = "none",
              !.completedArg = 0, !.elapsedAtComplete = 0]

\* loop(), first block, at the top of an iteration
FwSense ==
    /\ fpc = "sense"
    /\ now <= (IF single THEN MaxLongTime ELSE MaxTime)
    /\ idle < MaxIdleTicks \/ serialIn # <<>> \/ dev.isMoving \/ obs.state # "IDLE"
    /\ \E sr \in SensorReadings, dur \in UtsDurations :
          LET m == LoopSense([dev EXCEPT !.out = <<>>], sr)
              t == IF UTS_ENABLED THEN now + dur ELSE now
          IN /\ dev' = m
             /\ now' = t
             /\ obs' = ObsLines(IF UTS_ENABLED THEN ObsCycle(ObsTick(obs), dev, m, sr)
                                 ELSE ObsTick(obs),
                                 m.out, t)
             /\ uplink' = Uplink(m.out)
    /\ fpc' = "command"
    /\ UNCHANGED <<serialIn, sent, idle, single, hostVars, rendVars, turn>>

\* loop(), second block: "Check for incoming commands".  A FORWARD that is
\* accepted leaves the iteration inside moveForward(); turnLeft()/turnRight()
\* block for turnTime.
FwCommand ==
    /\ fpc = "command"
    /\ IF serialIn = <<>>
       THEN /\ fpc' = "check"
            /\ idle' = IF dev.isMoving THEN 0 ELSE idle + 1
            /\ UNCHANGED <<dev, now, serialIn, uplink, obs>>
       ELSE LET c == Head(serialIn)
                m == Dispatch(Emit(dev, Echo(c)), c, now)
                blocked == Has(NewLines(dev.out, m.out), "BLOCKED")
            IN /\ serialIn' = Tail(serialIn)
               /\ dev' = m
               /\ obs' = ObsCommand(obs, c, NewLines(dev.out, m.out), now)
               /\ uplink' = Uplink(NewLines(dev.out, m.out))
               /\ now' = IF c.op \in {"LEFT", "RIGHT"} /\ ~blocked
                         THEN now + turnTime ELSE now
               /\ fpc' = IF c.op = "FORWARD" /\ ~blocked THEN "forward" ELSE "check"
               /\ idle' = 0
    /\ UNCHANGED <<sent, single, hostVars, rendVars, turn>>

\* moveForward(): one pass of "while (millis() - startTime < forwardTime)", or
\* the end of the function
FwForward ==
    /\ fpc = "forward"
    /\ IF ULongSub(now, dev.fwdStart) < forwardTime
       THEN \E sr \in SensorReadings, dur \in UtsDurations, acc \in AccelReadings :
               LET m == IF UTS_ENABLED
                        THEN checkForObstacles(dev, sr[1], sr[2], sr[3]) ELSE dev
               IN /\ obs' = IF UTS_ENABLED THEN ObsCycle(obs, dev, m, sr) ELSE obs
                  /\ IF UTS_ENABLED /\ m.obstacleLatched
                     THEN /\ dev' = stopMotors(m)
                          /\ now' = now + dur
                          /\ fpc' = "check"
                     ELSE /\ dev' = moveForwardDrive(m, acc)
                          /\ now' = now + dur + ForwardDelayMs
                          /\ fpc' = "forward"
       ELSE /\ dev' = stopMotors(dev)
            /\ fpc' = "check"
            /\ now' = now
            /\ obs' = obs
    /\ uplink' = Uplink(NewLines(dev.out, dev'.out))
    /\ UNCHANGED <<serialIn, sent, idle, single, hostVars, rendVars, turn>>

\* the outcome of an overflow matters only to a reading that has one
TiltReadings ==
    { [ok |-> FALSE, x |-> 0, y |-> 0, ub |-> Wraps] }
        \cup { r \in [ok : {TRUE}, x : TiltXs, y : TiltYs,
                      ub : {Wraps} \cup [wrap : {FALSE},
                                         v : {-(2^15), -1, 0, 2^15 - 1}]] :
                 r.ub # Wraps => (r.x - normalX <= -(2^15) \/ r.y - normalY <= -(2^15)) }

\* loop(), last block and delay(10)
FwCheck ==
    /\ fpc = "check"
    /\ IF dev.isMoving /\ dev.isPrecisionMode
       THEN IF dev.currentCommand = "MOVE_DISTANCE"
            THEN \E sr \in SensorReadings, dur \in UtsDurations, acc \in AccelReadings :
                    LET m == LoopCheck(dev, now, sr, acc)
                    IN /\ dev' = m
                       /\ now' = (IF UTS_ENABLED THEN now + dur ELSE now) + LoopDelayMs
                       /\ obs' = ObsCheck(IF UTS_ENABLED THEN ObsCycle(obs, dev, m, sr)
                                           ELSE obs,
                                           dev, m, now)
            ELSE LET m == LoopCheck(dev, now, <<0, 0, 0>>, [ok |-> FALSE, x |-> 0, y |-> 0])
                 IN /\ dev' = m
                    /\ now' = now + LoopDelayMs
                    /\ obs' = ObsCheck(obs, dev, m, now)
       ELSE /\ now' = now + LoopDelayMs
            /\ UNCHANGED <<dev, obs>>
    /\ uplink' = Uplink(NewLines(dev.out, dev'.out))
    /\ fpc' = "sense"
    /\ UNCHANGED <<serialIn, sent, idle, single, hostVars, rendVars, turn>>

\* a MOVE_DISTANCE goes on with the path clear and nothing in the Serial
\* buffer: the last block of loop() with any reading of the accelerometer,
\* delay(10), and the first two blocks of the next iteration
TiltLoop ==
    /\ fpc = "check"
    /\ dev.isMoving /\ dev.isPrecisionMode /\ dev.currentCommand = "MOVE_DISTANCE"
    /\ serialIn = << >>
    /\ \E dur \in UtsDurations, acc \in TiltReadings :
          LET clear == << 26, 26, 26 >>
              spent == IF UTS_ENABLED THEN dur ELSE 0
              m == LoopCheck(dev, now, clear, acc)
          IN /\ dev' = LoopSense([m EXCEPT !.out = << >>], clear)
             /\ now' = now + spent + LoopDelayMs + spent
             /\ obs' = [obs EXCEPT !.acc = acc, !.checked = dev.currentCommand]
             /\ uplink' = Uplink(NewLines(dev.out, m.out))
    /\ UNCHANGED <<fpc, serialIn, sent, idle, single, hostVars, rendVars, turn>>

\* a command line arrives on the serial link; loop() looks at the buffer once per
\* iteration, so arrivals are taken between iterations
EnvSend ==
    /\ fpc = "sense"
    /\ sent < MaxCommands
    /\ Len(serialIn) < MaxSerial
    /\ \E c \in PrecisionCommands : serialIn' = Append(serialIn, c)
    /\ sent' = sent + 1
    /\ UNCHANGED <<dev, now, fpc, uplink, idle, single, obs, hostVars, rendVars, turn>>

EnvSendLegacy ==
    /\ fpc = "sense"
    /\ sent < MaxCommands
    /\ Len(serialIn) < MaxSerial
    /\ \E c \in LegacyCommands : serialIn' = Append(serialIn, c)
    /\ sent' = sent + 1
    /\ UNCHANGED <<dev, now, fpc, uplink, idle, single, obs, hostVars, rendVars, turn>>

\* after setup(): either nothing sent yet, or one long move already written to
\* the link and no command after it
FwInit ==
    /\ dev = DevInit
    /\ now = 0
    /\ fpc = "sense"
    /\ \/ serialIn = <<>> /\ sent = 0 /\ single = FALSE
       \/ \E c \in SingleCommands :
             serialIn = <<c>> /\ sent = MaxCommands /\ single = TRUE
    /\ uplink = << >>
    /\ idle = 0
    /\ obs = ObsInit

----------------------------------------------------------------------------
(* Part 2: the host controller, class ArduinoController                      *)
(* (main/arduino-communication.ts), driven through the IPC handlers of       *)
(* main/background.ts.  A JavaScript number is held in thousandths.  A       *)
(* handler runs until it awaits something the event loop must deliver (the   *)
(* callback of port.write, a timer); what is left of it waits in host.calls. *)

Milli == 10 * 10 * 10

Cell(x, y) == [x |-> x, y |-> y]

\* Number.prototype.toFixed(digits) of a number held in thousandths: the
\* decimal text, as an integer count of units of 10^-digits
RoundDiv(m, d) == IF m >= 0 THEN (m + d \div 2) \div d ELSE -((-m + d \div 2) \div d)
toFixed(m, digits) == IF digits = 2 THEN RoundDiv(m, 10) ELSE RoundDiv(m, 100)

\* the remainder operator % of JavaScript (sign of the dividend)
JsRem(a, n) == IF a >= 0 THEN a % n ELSE -((-a) % n)

\* Array.prototype.indexOf, 0-based, -1 when absent
indexOf(arr, v) ==
    IF \E i \in 1..Len(arr) : arr[i] = v
    THEN (CHOOSE i \in 1..Len(arr) : arr[i] = v /\ \A j \in 1..(i - 1) : arr[j] # v) - 1
    ELSE -1

\* arr[i] of JavaScript, 0-based
At(arr, i) == IF i \in 0..(Len(arr) - 1) THEN arr[i + 1] ELSE "undefined"

\* floor of the square root, by bisection
RECURSIVE IsqrtIn(_, _, _)
IsqrtIn(n, lo, hi) ==
    IF lo >= hi THEN lo
    ELSE LET mid == (lo + hi + 1) \div 2
         IN IF mid * mid <= n THEN IsqrtIn(n, mid, hi) ELSE IsqrtIn(n, lo, mid - 1)
Isqrt(n) == IsqrtIn(n, 0, 40000)

\* Math.sqrt(dx*dx + dy*dy) * 24 in thousandths, exact to the hundredth
GridInches(dx, dy) ==
    LET s == Isqrt(4 * 5760000 * (dx * dx + dy * dy))    \* floor(2 * 2400 * sqrt)
    IN ((s + 1) \div 2) * 10

HostDirections == <<"north", "east", "south", "west">>

\* what a handler still has to do, one entry per effect
OpSend(op, arg) ==
    [k |-> "send", cmd |-> [op |-> op, arg |-> arg], ms |-> 0,
     movement |-> "none", by |-> "none", arg |-> 0]
OpDelay(ms) ==
    [k |-> "delay", cmd |-> [op |-> "none", arg |-> 0], ms |-> ms,
     movement |-> "none", by |-> "none", arg |-> 0]
OpUpdate(movement, by, arg) ==
    [k |-> "update", cmd |-> [op |-> "none", arg |-> 0], ms |-> 0,
     movement |-> movement, by |-> by, arg |-> arg]

\* updatePositionAfterMove() with the grid clamp left out
updatePositionAfterMoveUnclamped(p, movement) ==
    CASE movement = "forward" ->
            (CASE p.direction = "north" -> [p EXCEPT !.y = p.y - 1]
               [] p.direction = "south" -> [p EXCEPT !.y = p.y + 1]
               [] p.direction = "east" -> [p EXCEPT !.x = p.x + 1]
               [] p.direction = "west" -> [p EXCEPT !.x = p.x - 1]
               [] OTHER -> p)
      [] movement = "left" ->
            (CASE p.direction = "north" -> [p EXCEPT !.direction = "west"]
               [] p.direction = "south" -> [p EXCEPT !.direction = "east"]
               [] p.direction = "east" -> [p EXCEPT !.direction = "north"]
               [] p.direction = "west" -> [p EXCEPT !.direction = "south"]
               [] OTHER -> p)
      [] movement = "right" ->
            (CASE p.direction = "north" -> [p EXCEPT !.direction = "east"]
               [] p.direction = "south" -> [p EXCEPT !.direction = "west"]
               [] p.direction = "east" -> [p EXCEPT !.direction = "south"]
               [] p.direction = "west" -> [p EXCEPT !.direction = "north"]
               [] OTHER -> p)
      [] OTHER -> p

updatePositionAfterMove(p, movement) ==
    CASE movement = "forward" ->
            (CASE p.direction = "north" -> [p EXCEPT !.y = Max(0, p.y - 1)]
               [] p.direction = "south" -> [p EXCEPT !.y = Min(4, p.y + 1)]
               [] p.direction = "east" -> [p EXCEPT !.x = Min(4, p.x + 1)]
               [] p.direction = "west" -> [p EXCEPT !.x = Max(0, p.x - 1)]
               [] OTHER -> p)
      [] movement = "left" ->
            (CASE p.direction = "north" -> [p EXCEPT !.direction = "west"]
               [] p.direction = "south" -> [p EXCEPT !.direction = "east"]
               [] p.direction = "east" -> [p EXCEPT !.direction = "north"]
               [] p.direction = "west" -> [p EXCEPT !.direction = "south"]
               [] OTHER -> p)
      [] movement = "right" ->
            (CASE p.direction = "north" -> [p EXCEPT !.direction = "east"]
               [] p.direction = "south" -> [p EXCEPT !.direction = "west"]
               [] p.direction = "east" -> [p EXCEPT !.direction = "south"]
               [] p.direction = "west" -> [p EXCEPT !.direction = "north"]
               [] OTHER -> p)
      [] OTHER -> p

\* calculateTurnAngle() of the controller, in degrees
ArduinoController_calculateTurnAngle(current, required) ==
    LET currentIndex == indexOf(HostDirections, current)
        requiredIndex == indexOf(HostDirections, required)
        turns == JsRem(requiredIndex - currentIndex + 4, 4)
    IN IF turns = 1 THEN 90
       ELSE IF turns = 2 THEN 180
       ELSE IF turns = 3 THEN -90
       ELSE 0

ArduinoController_moveForward(duration) ==
    << OpSend("FORWARD", 0), OpDelay(duration), OpSend("STOP", 0),
       OpUpdate("forward", "moveForward", duration) >>

ArduinoController_turnLeft ==
    << OpSend("LEFT", 0), OpDelay(500), OpSend("STOP", 0),
       OpUpdate("left", "turnLeft", 0) >>

ArduinoController_turnRight ==
    << OpSend("RIGHT", 0), OpDelay(500), OpSend("STOP", 0),
       OpUpdate("right", "turnRight", 0) >>

ArduinoController_stop == << OpSend("STOP", 0) >>

ArduinoController_reset == << OpSend("RESET", 0), OpDelay(100) >>

\* a moveDistance() without the check of its argument
moveDistanceUnchecked(inches) ==
    << OpSend("MOVE_DISTANCE", toFixed(inches, 2)),
       OpUpdate("forward", "moveDistance", inches) >>

\* moveDistance() that waits for the device's MOVEMENT_COMPLETE line before it
\* returns
moveDistanceAwaitingComplete(inches) ==
    IF inches <= 0 THEN << >>
    ELSE << OpSend("MOVE_DISTANCE", toFixed(inches, 2)),
            [OpDelay(0) EXCEPT !.k = "MOVEMENT_COMPLETE"],
            OpUpdate("forward", "moveDistance", inches) >>

\* moveDistance(inches): "MOVE_DISTANCE:" + inches.toFixed(2), then the
\* optimistic pose update
ArduinoController_moveDistance(inches) ==
    IF inches <= 0 THEN << >>
    ELSE << OpSend("MOVE_DISTANCE", toFixed(inches, 2)),
            OpUpdate("forward", "moveDistance", inches) >>

\* turnAngle(degrees): "TURN_ANGLE:" + degrees.toFixed(1), then one 'right' or
\* one 'left' pose update
ArduinoController_turnAngle(degrees) ==
    IF degrees = 0 THEN << >>
    ELSE << OpSend("TURN_ANGLE", toFixed(degrees, 1)),
            OpUpdate(IF degrees > 0 THEN "right" ELSE "left", "turnAngle", degrees) >>

\* tableArrived(tableNumber): "TABLE" + tableNumber + "_ARRIVED"
ArduinoController_tableArrived(tableNumber) ==
    IF tableNumber < 1 \/ tableNumber > 3 THEN << >>
    ELSE << OpSend("TABLE_ARRIVED", tableNumber) >>

\* tableReceived(tableNumber): "TABLE" + tableNumber + "_RECEIVED"
ArduinoController_tableReceived(tableNumber) ==
    IF tableNumber < 1 \/ tableNumber > 3 THEN << >>
    ELSE << OpSend("TABLE_RECEIVED", tableNumber) >>

\* moveToPosition(): which way the target lies from the pose read on entry
RequiredDirection(deltaX, deltaY) ==
    IF Abs(deltaX) > Abs(deltaY)
    THEN (IF deltaX > 0 THEN "east" ELSE "west")
    ELSE (IF deltaY > 0 THEN "south" ELSE "north")

ArduinoController_moveToPosition(currentPos, targetX, targetY) ==
    LET deltaX == targetX - currentPos.x
        deltaY == targetY - currentPos.y
        angle == ArduinoController_calculateTurnAngle(
                     currentPos.direction, RequiredDirection(deltaX, deltaY))
        distance2 == deltaX * deltaX + deltaY * deltaY
    IN (IF angle # 0 THEN ArduinoController_turnAngle(angle * Milli) ELSE << >>)
       \o (IF distance2 > 0
           THEN ArduinoController_moveDistance(GridInches(deltaX, deltaY))
           ELSE << >>)

\* getTurnCommands()
getTurnCommands(current, required) ==
    IF current = required THEN << >>
    ELSE LET turns == JsRem(indexOf(HostDirections, required)
                            - indexOf(HostDirections, current) + 4, 4)
         IN IF turns = 1 THEN << "right" >>
            ELSE IF turns = 2 THEN << "right", "right" >>
            ELSE IF turns = 3 THEN << "left" >>
            ELSE << >>

\* convertPathToCommands(): every segment is turned from the direction the
\* controller has when the conversion runs
RECURSIVE convertPathToCommands(_, _, _)
convertPathToCommands(currentDirection, path, i) ==
    IF i > Len(path) THEN << >>
    ELSE LET dx == path[i].x - path[i - 1].x
             dy == path[i].y - path[i - 1].y
             rest == convertPathToCommands(currentDirection, path, i + 1)
         IN IF dx = 0 /\ dy = 0 THEN rest
            ELSE LET requiredDirection ==
                         IF dx > 0 THEN "east"
                         ELSE IF dx < 0 THEN "west"
                         ELSE IF dy > 0 THEN "south"
                         ELSE "north"
                 IN getTurnCommands(currentDirection, requiredDirection)
                    \o << "forward" >> \o rest

\* executeMovementSequence(): each command, then delay(200)
RECURSIVE executeMovementSequence(_)
executeMovementSequence(commands) ==
    IF commands = << >> THEN << >>
    ELSE LET action == Head(commands)
             body == CASE action = "forward" -> ArduinoController_moveForward(1000)
                       [] action = "left" -> ArduinoController_turnLeft
                       [] action = "right" -> ArduinoController_turnRight
                       [] OTHER -> ArduinoController_stop
         IN body \o << OpDelay(200) >> \o executeMovementSequence(Tail(commands))

\* the requests the IPC handlers of background.ts receive
HostAngles == {-180 * Milli, -90 * Milli, 0, 90 * Milli, 180 * Milli}
HostInches == {0, 24 * Milli}
HostTargets == { Cell(0, 4), Cell(3, 3) }
HostPaths == { << Cell(2, 3), Cell(2, 4) >> }

Request(op, arg) == [op |-> op, arg |-> arg]

HostRequests ==
    {Request(o, 0) : o \in {"robot-move-forward", "robot-turn-left",
                            "robot-turn-right", "robot-stop", "robot-reset"}}
    \cup {Request("robot-move-distance", i) : i \in HostInches}
    \cup {Request("robot-turn-angle", a) : a \in HostAngles}
    \cup {Request("robot-move-to-position", c) : c \in HostTargets}
    \cup {Request("robot-execute-path", p) : p \in HostPaths}

\* the requests whose handlers look at their argument first, with arguments on
\* both sides of each check
ArgInches == {-24 * Milli, 0, 12 * Milli, 24 * Milli}
ArgAngles == {-90 * Milli, 0, 90 * Milli}
ArgTables == 0..4

ArgRequests ==
    {Request("robot-move-distance", i) : i \in ArgInches}
    \cup {Request("robot-turn-angle", a) : a \in ArgAngles}
    \cup {Request(o, n) : o \in {"robot-table-arrived", "robot-table-received"},
                          n \in ArgTables}

\* where a path of adjacent cells ends, and the way its last segment points
PathGoal(path) ==
    LET n == Len(path)
        dx == path[n].x - path[n - 1].x
        dy == path[n].y - path[n - 1].y
    IN [x |-> path[n].x, y |-> path[n].y,
        direction |-> IF dx > 0 THEN "east" ELSE IF dx < 0 THEN "west"
                      ELSE IF dy > 0 THEN "south" ELSE "north"]

\* the requests with an argument the method is documented to ignore
Refused(r) ==
    \/ r.op = "robot-move-distance" /\ r.arg <= 0
    \/ r.op = "robot-turn-angle" /\ r.arg = 0
    \/ r.op \in {"robot-table-arrived", "robot-table-received"} /\ r.arg \notin 1..3

\* the handler of a request, as what it has to do from the pose h.pos
Handler(h, r) ==
    CASE r.op = "robot-move-forward" -> ArduinoController_moveForward(1000)
      [] r.op = "robot-turn-left" -> ArduinoController_turnLeft
      [] r.op = "robot-turn-right" -> ArduinoController_turnRight
      [] r.op = "robot-stop" -> ArduinoController_stop
      [] r.op = "robot-reset" -> ArduinoController_reset
      [] r.op = "robot-move-distance" -> ArduinoController_moveDistance(r.arg)
      [] r.op = "robot-turn-angle" -> ArduinoController_turnAngle(r.arg)
      [] r.op = "robot-move-to-position" ->
            ArduinoController_moveToPosition(h.pos, r.arg.x, r.arg.y)
      [] r.op = "robot-table-arrived" -> ArduinoController_tableArrived(r.arg)
      [] r.op = "robot-table-received" -> ArduinoController_tableReceived(r.arg)
      [] OTHER ->
            executeMovementSequence(
                convertPathToCommands(h.pos.direction, r.arg, 2))

HostInitState ==
    [ pos |-> [x |-> 2, y |-> 4, direction |-> "north"],
      port |-> FALSE,           \* this.port is set
      isConnected |-> FALSE,
      writeThrows |-> FALSE,    \* port.write() throws in the handler step that runs
      lateCallbacks |-> 0,      \* write callbacks due for a send that timed out
      lateTimers |-> 0,         \* 5 s timers left armed by a send that has settled
      calls |-> << >> ]         \* handlers waiting at an await

HobsInitState ==
    [ requests |-> 0,           \* IPC requests received so far
      by |-> "none",            \* method that made the last pose update,
      arg |-> 0,                \* its argument,
      before |-> [x |-> 2, y |-> 4, direction |-> "north"],
      after |-> [x |-> 2, y |-> 4, direction |-> "north"],
      written |-> [op |-> "none", arg |-> 0],   \* last command given to port.write
      serving |-> FALSE,        \* a request of the planner is being handled
      goal |-> [x |-> -1, y |-> -1, direction |-> "none"],
                                \* last cell and last segment's direction of the
                                \* path of the last robot-execute-path request
      refused |-> FALSE,        \* the last request had an argument its method
                                \* is documented to ignore
      threw |-> FALSE,          \* a handler was ended by a rejected sendCommand()
      sendsOwed |-> 0,          \* sendCommand() calls the handlers begun have yet to make
      updatesOwed |-> 0,        \* pose updates they have yet to make
      lastSend |-> "none",      \* the last thing a sendCommand() met: "unsent" (no
                                \* connection), "exception", "pending", "written",
                                \* "error", "timeout", "late callback", "late timer"
      blockedLines |-> 0,       \* lines with "BLOCKED" handled while connected
      autoResets |-> 0,         \* RESET commands the 'data' handler wrote
      trigger |-> "none" ]      \* the line that made it write the last one

\* what sendCommand() waits for past the timeout of its write
SendTimeoutMs == 5000

\* a promise is settled by the first resolve() or reject() only
Resolve(p) == IF p.state = "pending" THEN [p EXCEPT !.state = "resolved"] ELSE p
Reject(p) == IF p.state = "pending" THEN [p EXCEPT !.state = "rejected"] ELSE p

NoPromise == [state |-> "none", timer |-> FALSE, callback |-> FALSE, age |-> 0]

\* a sendCommand() that passes the failure of its write on
sendCommandThrows(h) ==
    IF ~h.port \/ ~h.isConnected
    THEN [NoPromise EXCEPT !.state = "resolved"]
    ELSE LET p == [NoPromise EXCEPT !.state = "pending"]
         IN IF ~h.port THEN Resolve(p)
            ELSE IF h.writeThrows THEN Reject([p EXCEPT !.timer = TRUE])
            ELSE [p EXCEPT !.timer = TRUE, !.callback = TRUE]

\* sendCommand(command) up to its return: the promise, whether its 5 s timer
\* is armed and whether port.write() took the callback
sendCommand(h) ==
    IF ~h.port \/ ~h.isConnected
    THEN [NoPromise EXCEPT !.state = "resolved"]
    ELSE LET p == [NoPromise EXCEPT !.state = "pending"]
         IN IF ~h.port THEN Resolve(p)
            ELSE IF h.writeThrows THEN Resolve([p EXCEPT !.timer = TRUE])
            ELSE [p EXCEPT !.timer = TRUE, !.callback = TRUE]

\* a write callback that rejects when it is given an error
OnWriteCallbackRejects(p, err) ==
    LET q == [p EXCEPT !.timer = FALSE, !.callback = FALSE]
    IN IF err THEN Reject(q) ELSE Resolve(q)

\* the callback of port.write(): clearTimeout(timeout), then resolve() with or
\* without an error
OnWriteCallback(p, err) ==
    LET q == [p EXCEPT !.timer = FALSE, !.callback = FALSE]
    IN IF err THEN Resolve(q) ELSE Resolve(q)

\* a timeout callback that only warns
OnTimeoutWarns(p) == [p EXCEPT !.timer = FALSE]

\* the callback of sendCommand()'s timer
OnTimeout(p) == Resolve([p EXCEPT !.timer = FALSE])

\* run a handler until it has to wait or is ended by an exception:
\* sendCommand() returns at once without a connection and else waits for the
\* write's callback or the 5 s timer
RECURSIVE HostRun(_, _, _)
HostRun(h, o, prog) ==
    IF prog = << >>
    THEN [h |-> h, o |-> o, rest |-> << >>, wait |-> "done", p |-> NoPromise]
    ELSE LET op == Head(prog)
         IN CASE op.k = "update" ->
                    LET q == updatePositionAfterMove(h.pos, op.movement)
                    IN HostRun([h EXCEPT !.pos = q],
                               [o EXCEPT !.by = op.by, !.arg = op.arg,
                                         !.before = h.pos, !.after = q,
                                         !.updatesOwed = @ - 1],
                               Tail(prog))
              [] op.k = "send" ->
                    LET q == sendCommand(h)
                        called == h.port /\ h.isConnected
                        h1 == IF q.state # "pending" /\ q.timer
                              THEN [h EXCEPT !.lateTimers = @ + 1] ELSE h
                        o1 == [o EXCEPT !.written = IF called THEN op.cmd ELSE @,
                                        !.sendsOwed = @ - 1,
                                        !.lastSend = IF ~called THEN "unsent"
                                                     ELSE IF q.state = "pending"
                                                     THEN "pending"
                                                     ELSE "exception"]
                    IN IF q.state = "resolved" THEN HostRun(h1, o1, Tail(prog))
                       ELSE IF q.state = "rejected"
                       THEN [h |-> h1, o |-> [o1 EXCEPT !.threw = TRUE],
                             rest |-> << >>, wait |-> "done", p |-> NoPromise]
                       ELSE [h |-> h1, o |-> o1, rest |-> Tail(prog),
                             wait |-> "write", p |-> q]
              [] OTHER ->
                    [h |-> h, o |-> o, rest |-> Tail(prog), wait |-> op.k,
                     p |-> NoPromise]

HostPark(r, calls) ==
    IF r.wait = "done" THEN calls
    ELSE Append(calls, [rest |-> r.rest, wait |-> r.wait, p |-> r.p])

RemoveAt(s, i) == SubSeq(s, 1, i - 1) \o SubSeq(s, i + 1, Len(s))

\* the sendCommand() calls and the pose updates a handler has to make
RECURSIVE OpsOfKind(_, _)
OpsOfKind(prog, k) ==
    IF prog = << >> THEN 0
    ELSE (IF Head(prog).k = k THEN 1 ELSE 0) + OpsOfKind(Tail(prog), k)

\* an IPC request of the set rs arrives and its handler runs to its first wait
HostServe(rs) ==
    /\ hobs.requests < MaxRequests
    /\ Len(host.calls) < MaxCalls
    /\ \E r \in rs :
      \E throws \in {t \in BOOLEAN : t => host.lateTimers < MaxLate} :
          LET prog == Handler(host, r)
              run == HostRun([host EXCEPT !.writeThrows = throws],
                             [hobs EXCEPT !.requests = @ + 1,
                                          !.refused = Refused(r),
                                          !.goal = IF r.op = "robot-execute-path"
                                                   THEN PathGoal(r.arg) ELSE @,
                                          !.sendsOwed = @ + OpsOfKind(prog, "send"),
                                          !.updatesOwed = @ + OpsOfKind(prog, "update")],
                             prog)
          IN /\ host' = [run.h EXCEPT !.calls = HostPark(run, host.calls),
                                      !.writeThrows = FALSE]
             /\ hobs' = run.o

HostRequestOf(rs) == HostServe(rs) /\ UNCHANGED <<fwVars, rendVars, turn>>

HostRequest == HostRequestOf(HostRequests)

HostArgRequest == HostRequestOf(ArgRequests)

\* a handler waiting at calls[i] whose promise went from p to q: it goes on
\* when the promise is resolved, is ended by the exception when it is
\* rejected, and waits on otherwise
HostSettled(i, q, how, throws) ==
    LET c == host.calls[i]
        h0 == [host EXCEPT !.calls = RemoveAt(@, i),
                           !.writeThrows = throws,
                           !.lateCallbacks = IF q.state # "pending" /\ q.callback
                                             THEN @ + 1 ELSE @,
                           !.lateTimers = IF q.state # "pending" /\ q.timer
                                          THEN @ + 1 ELSE @]
        o0 == [hobs EXCEPT !.lastSend = how]
        run == HostRun(h0, o0, c.rest)
    IN IF q.state = "pending"
       THEN /\ host' = [host EXCEPT !.calls[i].p = q]
            /\ hobs' = hobs
       ELSE IF q.state = "rejected"
       THEN /\ host' = [h0 EXCEPT !.writeThrows = FALSE]
            /\ hobs' = [o0 EXCEPT !.threw = TRUE]
       ELSE /\ host' = [run.h EXCEPT !.calls = HostPark(run, @), !.writeThrows = FALSE]
            /\ hobs' = run.o

\* the event loop delivers what a handler waits for: the callback of its
\* write, with or without an error, the 5 s timer of its sendCommand() when
\* that is due, or the timer of a delay
HostDeliver ==
    /\ \E i \in 1..Len(host.calls),
          throws \in {t \in BOOLEAN : t => host.lateTimers < MaxLate} :
          LET c == host.calls[i]
          IN \/ /\ c.wait = "write" /\ c.p.callback
                /\ \E err \in BOOLEAN :
                      HostSettled(i, OnWriteCallback(c.p, err),
                                  IF err THEN "error" ELSE "written", throws)
             \/ /\ c.wait = "write" /\ c.p.timer /\ c.p.age >= SendTimeoutMs
                /\ host.lateCallbacks < MaxLate
                /\ HostSettled(i, OnTimeout(c.p), "timeout", throws)
             \/ /\ c.wait = "delay"
                /\ HostSettled(i, Resolve([NoPromise EXCEPT !.state = "pending"]),
                               hobs.lastSend, throws)

HostResume == HostDeliver /\ UNCHANGED <<fwVars, rendVars, turn>>

\* a callback that arrives for a sendCommand() whose promise is settled: the
\* write callback after the timeout, or the timer a throwing write left armed
HostLate ==
    /\ \E kind \in {"callback", "timer"} :
          LET settled == [NoPromise EXCEPT !.state = "resolved",
                                           !.callback = kind = "callback",
                                           !.timer = kind = "timer"]
              q == IF kind = "callback"
                   THEN OnWriteCallback(settled, FALSE) ELSE OnTimeout(settled)
          IN /\ IF kind = "callback" THEN host.lateCallbacks > 0
                                     ELSE host.lateTimers > 0
             /\ host' = [host EXCEPT
                            !.lateCallbacks = IF kind = "callback" /\ ~q.callback
                                              THEN @ - 1 ELSE @,
                            !.lateTimers = IF kind = "timer" /\ ~q.timer
                                           THEN @ - 1 ELSE @]
             /\ hobs' = [hobs EXCEPT !.threw = @ \/ q.state = "rejected",
                                     !.lastSend = IF kind = "callback"
                                                  THEN "late callback"
                                                  ELSE "late timer"]
    /\ UNCHANGED <<fwVars, rendVars, turn>>

\* time passes for the writes that wait for their callback; a timer that is
\* due fires before more time passes
HostTick ==
    /\ \E i \in 1..Len(host.calls) :
          host.calls[i].wait = "write" /\ host.calls[i].p.age < 2 * SendTimeoutMs
    /\ \A i \in 1..Len(host.calls) :
          (host.calls[i].wait = "write" /\ host.calls[i].p.timer)
              => host.calls[i].p.age < SendTimeoutMs
    /\ host' = [host EXCEPT !.calls =
                   [i \in 1..Len(host.calls) |->
                       IF host.calls[i].wait = "write"
                       THEN [host.calls[i] EXCEPT !.p.age =
                                IF host.calls[i].p.timer
                                THEN Min(@ + SendTickMs, SendTimeoutMs)
                                ELSE Min(@ + SendTickMs, 2 * SendTimeoutMs)]
                       ELSE host.calls[i]]]
    /\ UNCHANGED <<hobs, fwVars, rendVars, turn>>

\* initializeConnection() finds a port; the port's 'open', 'error' and 'close'
\* events
HostPortFound ==
    /\ ~host.port
    /\ host' = [host EXCEPT !.port = TRUE]
    /\ UNCHANGED <<hobs, fwVars, rendVars, turn>>

HostPortOpen ==
    /\ host.port /\ ~host.isConnected
    /\ host' = [host EXCEPT !.isConnected = TRUE]
    /\ UNCHANGED <<hobs, fwVars, rendVars, turn>>

HostPortDown ==
    /\ host.isConnected
    /\ host' = [host EXCEPT !.isConnected = FALSE]
    /\ UNCHANGED <<hobs, fwVars, rendVars, turn>>

HostInit == host = HostInitState /\ hobs = HobsInitState

HostNext ==
    \/ HostRequest
    \/ HostResume
    \/ HostLate
    \/ HostTick
    \/ HostPortFound
    \/ HostPortOpen
    \/ HostPortDown

\* the controller given the requests of ArgRequests
ArgNext ==
    \/ HostArgRequest
    \/ HostResume
    \/ HostPortFound
    \/ HostPortOpen
    \/ HostPortDown

----------------------------------------------------------------------------
(* Part 3: the renderer's planner, component DeliverySystem                  *)
(* (src/unnamed/part_010).  A timer callback and an async continuation see   *)
(* the state of the render that created them: the closure's values travel    *)
(* with the timer and with the call in flight.                               *)

RendDirections == <<"up", "right", "down", "left">>

TABLE_POSITIONS ==
    [ T1 |-> Cell(1, 0), T2 |-> Cell(3, 0), T3 |-> Cell(1, 1), T4 |-> Cell(3, 1),
      T5 |-> Cell(1, 2), T6 |-> Cell(3, 2), T7 |-> Cell(1, 3), T8 |-> Cell(3, 3) ]

ROBOT_START_POSITION == Cell(2, 4)

\* parseInt(table.replace("T", ""))
TableNumber(t) ==
    CASE t = "T1" -> 1 [] t = "T2" -> 2 [] t = "T3" -> 3 [] t = "T4" -> 4
      [] t = "T5" -> 5 [] t = "T6" -> 6 [] t = "T7" -> 7 [] OTHER -> 8

\* calculateTurnAngle() without the normalisation to -2..+2 steps
calculateTurnAngleUnnormalised(currentDir, targetDir) ==
    (indexOf(RendDirections, targetDir) - indexOf(RendDirections, currentDir)) * 90

calculateTurnAngle(currentDir, targetDir) ==
    LET currentIndex == indexOf(RendDirections, currentDir)
        targetIndex == indexOf(RendDirections, targetDir)
        turnSteps == targetIndex - currentIndex
        s1 == IF turnSteps > 2 THEN turnSteps - 4 ELSE turnSteps
        s2 == IF s1 < -2 THEN s1 + 4 ELSE s1
    IN s2 * 90

getDirectionFromDelta(dx, dy) ==
    IF dx > 0 THEN "right"
    ELSE IF dx < 0 THEN "left"
    ELSE IF dy > 0 THEN "down"
    ELSE IF dy < 0 THEN "up"
    ELSE "null"

\* getNewDirection() without the + 4 before the remainder
getNewDirectionNoWrap(currentDir, angle) ==
    IF angle % 90 # 0 THEN "undefined"
    ELSE At(RendDirections,
            JsRem(indexOf(RendDirections, currentDir) + angle \div 90, 4))

\* getNewDirection(): directions[(currentIndex + angle / 90 + 4) % 4]; a
\* fractional index reads undefined
getNewDirection(currentDir, angle) ==
    IF angle % 90 # 0 THEN "undefined"
    ELSE At(RendDirections,
            JsRem(indexOf(RendDirections, currentDir) + angle \div 90 + 4, 4))

\* selectedTables.find(table at the position)
RECURSIVE FindTable(_, _)
FindTable(selected, p) ==
    IF selected = << >> THEN "none"
    ELSE IF TABLE_POSITIONS[Head(selected)] = p THEN Head(selected)
    ELSE FindTable(Tail(selected), p)

\* the grid of the pathfinder: 0 = walkable, 1 = obstacle (a table)
RESTAURANT_MAP ==
    << << 1, 0, 0, 0, 1 >>,
       << 1, 0, 0, 0, 1 >>,
       << 1, 0, 0, 0, 1 >>,
       << 1, 0, 0, 0, 1 >>,
       << 0, 0, 0, 0, 0 >> >>

\* isValidPosition(x, y): in the grid and walkable
isValidPosition(grid, x, y) ==
    /\ x >= 0 /\ x < Len(grid[1])
    /\ y >= 0 /\ y < Len(grid)
    /\ grid[y + 1][x + 1] = 0

\* the Manhattan distance
heuristic(a, b) == Abs(a.x - b.x) + Abs(a.y - b.y)

\* getNeighbors(node): up, right, down, left, the valid ones
getNeighbors(grid, node) ==
    LET directions == << Cell(0, -1), Cell(1, 0), Cell(0, 1), Cell(-1, 0) >>
        moved == [i \in 1..4 |-> Cell(node.x + directions[i].x, node.y + directions[i].y)]
        Valid(c) == isValidPosition(grid, c.x, c.y)
    IN SelectSeq(moved, Valid)

\* a Node; its chain of parents is held as the cells from the start to it
AStarNode(c, g, goal, chain) ==
    [x |-> c.x, y |-> c.y, g |-> g, h |-> heuristic(c, goal),
     f |-> g + heuristic(c, goal), chain |-> Append(chain, c)]

\* the scan for the node with the lowest f: the first of them in openSet
LowestF(openSet) ==
    CHOOSE i \in 1..Len(openSet) :
        /\ \A j \in 1..Len(openSet) : openSet[j].f >= openSet[i].f
        /\ \A j \in 1..(i - 1) : openSet[j].f > openSet[i].f

\* the loop over the neighbours of currentNode
RECURSIVE ExploreNeighbors(_, _, _, _, _)
ExploreNeighbors(openSet, closedSet, neighbors, currentNode, goal) ==
    IF neighbors = << >> THEN openSet
    ELSE LET neighborPos == Head(neighbors)
             tentativeG == currentNode.g + 1
             found == {i \in 1..Len(openSet) :
                          openSet[i].x = neighborPos.x /\ openSet[i].y = neighborPos.y}
             next ==
                 IF neighborPos \in closedSet THEN openSet
                 ELSE IF found = {}
                 THEN Append(openSet,
                             AStarNode(neighborPos, tentativeG, goal, currentNode.chain))
                 ELSE LET i == CHOOSE k \in found : \A j \in found : k <= j
                      IN IF tentativeG < openSet[i].g
                         THEN [openSet EXCEPT ![i] =
                                  AStarNode(neighborPos, tentativeG, goal, currentNode.chain)]
                         ELSE openSet
         IN ExploreNeighbors(next, closedSet, Tail(neighbors), currentNode, goal)

PathResult(path, success, text, at, why, n) ==
    [path |-> path, success |-> success,
     message |-> [text |-> text, at |-> at, why |-> why, n |-> n]]

NoCell == Cell(-1, -1)

\* the while loop of findPath()
RECURSIVE SearchLoop(_, _, _, _)
SearchLoop(grid, openSet, closedSet, goal) ==
    IF openSet = << >>
    THEN PathResult(<< >>, FALSE, "No path found", NoCell, "", 0)
    ELSE LET currentIndex == LowestF(openSet)
             currentNode == openSet[currentIndex]
             rest == SubSeq(openSet, 1, currentIndex - 1)
                         \o SubSeq(openSet, currentIndex + 1, Len(openSet))
             closed == closedSet \cup {Cell(currentNode.x, currentNode.y)}
         IN IF currentNode.x = goal.x /\ currentNode.y = goal.y
            THEN PathResult(currentNode.chain, TRUE, "Path found successfully",
                            NoCell, "", 0)
            ELSE SearchLoop(grid,
                            ExploreNeighbors(rest, closed, getNeighbors(grid, currentNode),
                                             currentNode, goal),
                            closed, goal)

\* findPath(start, goal) of the pathfinder made for grid
findPath(grid, start, goal) ==
    IF ~isValidPosition(grid, start.x, start.y)
    THEN PathResult(<< >>, FALSE, "Invalid start position", NoCell, "", 0)
    ELSE IF ~isValidPosition(grid, goal.x, goal.y)
    THEN PathResult(<< >>, FALSE, "Invalid goal position", NoCell, "", 0)
    ELSE SearchLoop(grid, << AStarNode(start, 0, goal, << >>) >>, {}, goal)

\* a loop that adds each path whole, its first cell included
RECURSIVE VisitTablesUnsliced(_, _, _, _, _, _)
VisitTablesUnsliced(grid, start, currentPosition, tables, totalPath, visited) ==
    IF tables = << >>
    THEN LET returnResult == findPath(grid, currentPosition, start)
         IN IF ~returnResult.success
            THEN PathResult(totalPath, FALSE, "Cannot return to start position",
                            NoCell, returnResult.message.text, 0)
            ELSE PathResult(totalPath \o returnResult.path, TRUE,
                            "Successfully planned route visiting", NoCell, "", visited)
    ELSE LET table == Head(tables)
             result == findPath(grid, currentPosition, table)
         IN IF ~result.success
            THEN PathResult(totalPath, FALSE, "Cannot reach table at", table,
                            result.message.text, 0)
            ELSE VisitTablesUnsliced(grid, start, table, Tail(tables),
                                     totalPath \o result.path, visited + 1)

\* the loop of findDeliveryRoute() over the tables, and the return to the start
RECURSIVE VisitTables(_, _, _, _, _, _)
VisitTables(grid, start, currentPosition, tables, totalPath, visited) ==
    IF tables = << >>
    THEN LET returnResult == findPath(grid, currentPosition, start)
         IN IF ~returnResult.success
            THEN PathResult(totalPath, FALSE, "Cannot return to start position",
                            NoCell, returnResult.message.text, 0)
            ELSE PathResult(totalPath \o Tail(returnResult.path), TRUE,
                            "Successfully planned route visiting", NoCell, "", visited)
    ELSE LET table == Head(tables)
             result == findPath(grid, currentPosition, table)
         IN IF ~result.success
            THEN PathResult(totalPath, FALSE, "Cannot reach table at", table,
                            result.message.text, 0)
            ELSE VisitTables(grid, start, table, Tail(tables),
                             totalPath \o Tail(result.path), visited + 1)

\* a findDeliveryRoute() that leaves out a table it cannot reach
RECURSIVE VisitReachable(_, _, _, _, _, _)
VisitReachable(grid, start, currentPosition, tables, totalPath, visited) ==
    IF tables = << >>
    THEN LET returnResult == findPath(grid, currentPosition, start)
         IN IF ~returnResult.success
            THEN PathResult(totalPath, FALSE, "Cannot return to start position",
                            NoCell, returnResult.message.text, 0)
            ELSE PathResult(totalPath \o Tail(returnResult.path), TRUE,
                            "Successfully planned route visiting", NoCell, "", visited)
    ELSE LET table == Head(tables)
             result == findPath(grid, currentPosition, table)
         IN IF ~result.success
            THEN VisitReachable(grid, start, currentPosition, Tail(tables), totalPath,
                                visited)
            ELSE VisitReachable(grid, start, table, Tail(tables),
                                totalPath \o Tail(result.path), visited + 1)

findDeliveryRouteSkipping(grid, start, tables) ==
    IF tables = << >>
    THEN PathResult(<< start >>, TRUE, "No tables to visit", NoCell, "", 0)
    ELSE VisitReachable(grid, start, start, tables, << start >>, 0)

\* findDeliveryRoute(start, tables)
findDeliveryRoute(grid, start, tables) ==
    IF tables = << >>
    THEN PathResult(<< start >>, TRUE, "No tables to visit", NoCell, "", 0)
    ELSE VisitTables(grid, start, start, tables, << start >>, 0)

\* the routes startDelivery() may store: walks of 4-adjacent cells of the
\* 5 x 5 grid that start at ROBOT_START_POSITION
Neighbours(c) ==
    { d \in { Cell(c.x, c.y - 1), Cell(c.x + 1, c.y), Cell(c.x, c.y + 1),
              Cell(c.x - 1, c.y) } : d.x \in 0..4 /\ d.y \in 0..4 }

RECURSIVE WalksFrom(_, _)
WalksFrom(c, n) ==
    IF n = 0 THEN { << c >> }
    ELSE { << c >> }
         \cup { << c >> \o w : w \in UNION { WalksFrom(d, n - 1) : d \in Neighbours(c) } }

Routes == { w \in WalksFrom(ROBOT_START_POSITION, MaxRouteLen) : Len(w) >= 2 }

Selections == { << "T8" >>, << "T7" >>, << "T8", "T6" >> }

\* what a closure holds of the render that created it
Snap(r) == [step |-> r.step, pos |-> r.pos, dir |-> r.dir, connected |-> r.connected]

\* the delay of both setTimeout calls: arduinoConnected ? 1000 : 500
TimerDelay(connected) == IF connected THEN 1000 ELSE 500

\* turnWaitTime without its 500 ms buffer
turnWaitTimeNoBuffer(angle) == (Abs(angle) * 1000) \div 120

\* (Math.abs(turnAngle) / turnSpeed) * 1000 + 500, turnSpeed = 120.0
turnWaitTime(angle) == (Abs(angle) * 1000) \div 120 + 500

\* (24 / moveSpeed) * 1000 + 500, moveSpeed = 3.0
moveWaitTime == (24 * 1000) \div 3 + 500

NoTimer == [armed |-> FALSE,
            snap |-> [step |-> 0, pos |-> ROBOT_START_POSITION, dir |-> "up",
                      connected |-> FALSE]]
Armed(r) == [armed |-> TRUE, snap |-> Snap(r)]

\* moveRobot() at an await: a request ("turnIpc", "moveIpc") or a wait
\* ("turnWait", "moveWait") with the time left of it
NoCall == [pc |-> "none", snap |-> NoTimer.snap, angle |-> 0, left |-> 0]

RendInitState(selected) ==
    [ selected |-> selected,    \* the selectedTables prop
      path |-> << >>,           \* deliveryState.currentPath
      step |-> 0,               \* deliveryState.currentStep
      pos |-> ROBOT_START_POSITION,
      dir |-> "up",
      isMoving |-> FALSE,
      table |-> "none",         \* deliveryState.currentTable
      showModal |-> FALSE,
      status |-> "moving",      \* deliveryState.deliveryStatus
      connected |-> FALSE,      \* arduinoConnected
      obstructed |-> FALSE,
      completedSteps |-> 0,
      ref |-> FALSE,            \* isMovingRef.current
      mounted |-> TRUE,         \* isMountedRef.current
      started |-> FALSE,        \* the mount effect has called startDelivery()
      map |-> RESTAURANT_MAP,   \* the grid the pathfinder was made for
      alert |-> PathResult(<< >>, TRUE, "", NoCell, "", 0).message,
                                \* the message of alert(), if one was shown
      back |-> FALSE,           \* onBackToSelection() was called
      etimer |-> NoTimer,       \* timer of the auto-move effect
      ctimer |-> NoTimer,       \* timer of confirmDelivery()
      call |-> NoCall ]         \* moveRobot() waiting at an await

LogEntry(seg, op, arg) == [seg |-> seg, op |-> op, arg |-> arg]

NoRequest == [e |-> LogEntry(0, "none", 0), settled |-> "none"]

RobsInitState ==
    [ log |-> << >>,            \* turnAngle / moveDistance requests sent, in order
      leds |-> << >>,           \* tableArrived / tableReceived requests sent
      dirty |-> FALSE,          \* a moveRobot() ran without a connection, or one
                                \* of its requests was rejected
      last |-> NoRequest,       \* the last motion request and how it settled:
                                \* "pending", "resolved", "rejected"
      prev |-> NoRequest,       \* the one before it
      since |-> 0,              \* time moveRobot() has waited since the last
                                \* request was sent,
      gap |-> 0,                \* and between the last two (both up to SinceCap)
      inFlight |-> 0,           \* moveRobot() invocations past the guard, not ended
      skipped |-> FALSE,        \* a timer callback found the guard set
      ungated |-> FALSE,        \* a moveRobot() began a segment while an obstacle
                                \* was reported,
      unconfirmed |-> FALSE ]   \* or while the arrival modal was shown

\* the observer's clock stops at the longest wait of the planner
SinceCap == moveWaitTime

\* a motion request is sent
Issue(o, entry) ==
    [o EXCEPT !.log = Append(@, entry),
              !.prev = o.last,
              !.last = [e |-> entry, settled |-> "pending"],
              !.gap = o.since,
              !.since = 0]

Settle(o, how) == [o EXCEPT !.last.settled = how]

\* a guard that is never found set
GuardNeverSet(r) == FALSE

\* isMovingRef.current as moveRobot(), the timer callbacks and the auto-move
\* effect read it
GuardSet(r) == r.ref

\* the auto-move effect: it runs again when one of its dependencies changed,
\* clears the timer of its last run and arms a new one if the robot may move
RunEffect(old, new) ==
    IF /\ old.step = new.step
       /\ old.isMoving = new.isMoving
       /\ old.status = new.status
       /\ old.obstructed = new.obstructed
    THEN new
    ELSE IF new.isMoving /\ new.status = "moving" /\ ~new.obstructed /\ ~GuardSet(new)
    THEN [new EXCEPT !.etimer = Armed(new)]
    ELSE [new EXCEPT !.etimer = NoTimer]

\* moveRobot() passes its guard; its finally block
Enter(r, o) ==
    [o EXCEPT !.inFlight = @ + 1,
              !.ungated = @ \/ r.obstructed,
              !.unconfirmed = @ \/ (r.status = "arrived" /\ r.showModal)]
Leave(o) == [o EXCEPT !.inFlight = @ - 1]

\* moveRobot(), from "Update state after movement" to the end
FinishMove(r, o0, snap, angle) ==
    LET o == Leave(o0)
    IN
    IF ~r.mounted
    THEN [r |-> [r EXCEPT !.ref = FALSE, !.call = NoCall], o |-> o]
    ELSE LET done == [r EXCEPT !.ref = FALSE, !.call = NoCall,
                               !.completedSteps = @ + 1]
         IN IF r.step >= Len(r.path) - 1
            THEN [r |-> RunEffect(r, [done EXCEPT !.isMoving = FALSE,
                                                  !.status = "complete"]),
                  o |-> o]
            ELSE LET nextStep == r.step + 1
                     nextPosition == r.path[nextStep + 1]
                     newDirection == IF angle # 0 THEN getNewDirection(r.dir, angle)
                                     ELSE r.dir
                     tableAtPosition == FindTable(r.selected, nextPosition)
                     moved == [done EXCEPT !.step = nextStep,
                                           !.pos = nextPosition,
                                           !.dir = newDirection]
                 IN IF tableAtPosition # "none"
                    THEN [r |-> RunEffect(r, [moved EXCEPT !.table = tableAtPosition,
                                                           !.showModal = TRUE,
                                                           !.status = "arrived"]),
                          o |-> IF snap.connected /\ TableNumber(tableAtPosition) \in 1..3
                                THEN [o EXCEPT !.leds = Append(@,
                                         LogEntry(nextStep, "tableArrived",
                                                  TableNumber(tableAtPosition)))]
                                ELSE o]
                    ELSE [r |-> RunEffect(r, [moved EXCEPT !.isMoving = TRUE]),
                          o |-> o]

\* moveRobot() entered with the closure snap, up to its first await
moveRobot(r, o, snap) ==
    IF GuardSet(r) THEN [r |-> r, o |-> o]
    ELSE IF snap.step + 1 >= Len(r.path)
    THEN [r |-> IF r.mounted
                THEN RunEffect(r, [r EXCEPT !.isMoving = FALSE, !.status = "complete"])
                ELSE r,
          o |-> o]
    ELSE LET nextPos == r.path[snap.step + 2]
             targetDir == getDirectionFromDelta(nextPos.x - snap.pos.x,
                                                nextPos.y - snap.pos.y)
             angle == IF targetDir = "null" THEN 0
                      ELSE calculateTurnAngle(snap.dir, targetDir)
         IN IF targetDir = "null" THEN [r |-> r, o |-> o]
            ELSE IF ~snap.connected
            THEN FinishMove(r, Enter(r, [o EXCEPT !.dirty = TRUE]), snap, angle)
            ELSE IF angle # 0
            THEN [r |-> [r EXCEPT !.ref = TRUE,
                                  !.call = [pc |-> "turnIpc", snap |-> snap,
                                            angle |-> angle, left |-> 0]],
                  o |-> Issue(Enter(r, o), LogEntry(snap.step + 1, "turnAngle", angle))]
            ELSE [r |-> [r EXCEPT !.ref = TRUE,
                                  !.call = [pc |-> "moveIpc", snap |-> snap,
                                            angle |-> angle, left |-> 0]],
                  o |-> Issue(Enter(r, o), LogEntry(snap.step + 1, "moveDistance", 24))]

\* startDelivery() once it has the result of findDeliveryRoute(): it stores
\* the route and starts the delivery, or shows the message and goes back to
\* the selection
startDelivery(r, result) ==
    IF result.success
    THEN RunEffect(r, [r EXCEPT !.started = TRUE,
                                !.path = result.path,
                                !.step = 0,
                                !.pos = ROBOT_START_POSITION,
                                !.dir = "up",
                                !.isMoving = TRUE,
                                !.table = "none",
                                !.showModal = FALSE,
                                !.status = "moving"])
    ELSE [r EXCEPT !.started = TRUE, !.alert = result.message, !.back = TRUE]

\* the mount effect: startDelivery() for one of the routes
RendStartDelivery ==
    /\ ~rend.started /\ rend.mounted /\ Len(rend.selected) > 0
    /\ \E route \in Routes :
          rend' = startDelivery(rend, PathResult(route, TRUE,
                                    "Successfully planned route visiting", NoCell, "",
                                    Len(rend.selected)))
    /\ UNCHANGED <<robs, fwVars, hostVars, turn>>

\* the positions startDelivery() makes of the selected tables
RECURSIVE tablePositions(_)
tablePositions(selected) ==
    IF selected = << >> THEN << >>
    ELSE << TABLE_POSITIONS[Head(selected)] >> \o tablePositions(Tail(selected))

\* the mount effect: startDelivery() with the route the pathfinder finds
RouteStartDelivery ==
    /\ ~rend.started /\ rend.mounted /\ Len(rend.selected) > 0
    /\ rend' = startDelivery(rend, findDeliveryRoute(rend.map, ROBOT_START_POSITION,
                                                    tablePositions(rend.selected)))
    /\ UNCHANGED <<robs, fwVars, hostVars, turn>>

\* a timer's callback: "if (!isMovingRef.current && isMountedRef.current)
\* moveRobot()"
\* a timer callback that does not look at isMountedRef
TimerCallbackIgnoresMount(r, o, snap) ==
    IF GuardSet(r) THEN [r |-> r, o |-> [o EXCEPT !.skipped = TRUE]]
    ELSE moveRobot(r, o, snap)

TimerCallback(r, o, snap) ==
    IF GuardSet(r) THEN [r |-> r, o |-> [o EXCEPT !.skipped = TRUE]]
    ELSE IF r.mounted THEN moveRobot(r, o, snap)
    ELSE [r |-> r, o |-> o]

\* the timer of the auto-move effect fires; confirmDelivery()'s timer was set
\* before it and fires first unless its delay is the longer one
RendTimer ==
    /\ rend.etimer.armed
    /\ rend.ctimer.armed =>
          TimerDelay(rend.etimer.snap.connected) < TimerDelay(rend.ctimer.snap.connected)
    /\ LET run == TimerCallback([rend EXCEPT !.etimer = NoTimer], robs,
                                rend.etimer.snap)
       IN rend' = run.r /\ robs' = run.o
    /\ UNCHANGED <<fwVars, hostVars, turn>>

\* the timer set by confirmDelivery() fires
RendConfirmTimer ==
    /\ rend.ctimer.armed
    /\ LET run == TimerCallback([rend EXCEPT !.ctimer = NoTimer], robs,
                                rend.ctimer.snap)
       IN rend' = run.r /\ robs' = run.o
    /\ UNCHANGED <<fwVars, hostVars, turn>>

\* a request of moveRobot() resolved: the wait for the motion starts
IpcResolved(r) ==
    [r EXCEPT !.call.pc = IF r.call.pc = "turnIpc" THEN "turnWait" ELSE "moveWait",
              !.call.left = IF r.call.pc = "turnIpc" THEN turnWaitTime(r.call.angle)
                            ELSE moveWaitTime]

\* moveRobot() resumes: a request settles (a rejection goes to the catch
\* block) or a wait ends
RendResume ==
    /\ rend.call.pc # "none"
    /\ \E settled \in {"resolved", "rejected"} :
          LET c == rend.call
              fin == FinishMove(rend, robs, c.snap, c.angle)
              bad == FinishMove(rend, Settle([robs EXCEPT !.dirty = TRUE], "rejected"),
                                c.snap, c.angle)
          IN CASE c.pc \in {"turnIpc", "moveIpc"} /\ settled = "resolved" ->
                     /\ rend' = IpcResolved(rend)
                     /\ robs' = Settle(robs, "resolved")
               [] c.pc \in {"turnIpc", "moveIpc"} /\ settled = "rejected" ->
                     rend' = bad.r /\ robs' = bad.o
               [] c.pc = "turnWait" /\ settled = "resolved" /\ c.left = 0 ->
                     /\ rend' = [rend EXCEPT !.call.pc = "moveIpc"]
                     /\ robs' = Issue(robs, LogEntry(c.snap.step + 1, "moveDistance", 24))
               [] c.pc = "moveWait" /\ settled = "resolved" /\ c.left = 0 ->
                     rend' = fin.r /\ robs' = fin.o
               [] OTHER -> FALSE
    /\ UNCHANGED <<fwVars, hostVars, turn>>

\* the time of a wait of moveRobot() passes: its setTimeout is due
RendAdvance ==
    /\ rend.call.pc \in {"turnWait", "moveWait"}
    /\ rend.call.left > 0
    /\ rend' = [rend EXCEPT !.call.left = 0]
    /\ robs' = [robs EXCEPT !.since = Min(@ + rend.call.left, SinceCap)]
    /\ UNCHANGED <<fwVars, hostVars, turn>>

\* confirmDelivery(), the modal's button
RendConfirmDelivery ==
    /\ rend.showModal /\ rend.mounted
    /\ rend' = RunEffect(rend, [rend EXCEPT !.showModal = FALSE,
                                            !.table = "none",
                                            !.isMoving = TRUE,
                                            !.status = "moving",
                                            !.ctimer = Armed(rend)])
    /\ robs' = IF /\ rend.table # "none" /\ rend.connected
                  /\ TableNumber(rend.table) \in 1..3
               THEN [robs EXCEPT !.leds = Append(@,
                        LogEntry(rend.step, "tableReceived", TableNumber(rend.table)))]
               ELSE robs
    /\ UNCHANGED <<fwVars, hostVars, turn>>

\* checkConnection(): robot.isConnected() answers
RendCheckConnection ==
    /\ rend.mounted
    /\ \E connected \in BOOLEAN :
          /\ connected # rend.connected
          /\ rend' = [rend EXCEPT !.connected = connected]
    /\ UNCHANGED <<robs, fwVars, hostVars, turn>>

\* the obstacle subscription
RendObstacleEvent ==
    /\ rend.mounted
    /\ \E msg \in {"OBSTACLE:DETECTED", "MOVEMENT_PAUSED:OBSTACLE",
                   "OBSTACLE:CLEARED", "MOVEMENT_RESUMED"} :
          LET b == msg \in {"OBSTACLE:DETECTED", "MOVEMENT_PAUSED:OBSTACLE"}
          IN /\ b # rend.obstructed
             /\ rend' = RunEffect(rend, [rend EXCEPT !.obstructed = b])
    /\ UNCHANGED <<robs, fwVars, hostVars, turn>>

\* the component unmounts: the effects' cleanups run
RendUnmount ==
    /\ rend.mounted
    /\ rend' = [rend EXCEPT !.mounted = FALSE, !.etimer = NoTimer]
    /\ UNCHANGED <<robs, fwVars, hostVars, turn>>

RendInit ==
    /\ \E selected \in Selections : rend = RendInitState(selected)
    /\ robs = RobsInitState

\* the selections of one to MaxStops distinct tables, in any order
TableNames == {"T1", "T2", "T3", "T4", "T5", "T6", "T7", "T8"}

StopSequences ==
    { q \in UNION { [1..n -> TableNames] : n \in 1..MaxStops } :
         \A i, j \in 1..Len(q) : i # j => q[i] # q[j] }

\* RESTAURANT_MAP, and the same room with the second row of the aisle closed
Maps == { RESTAURANT_MAP, [RESTAURANT_MAP EXCEPT ![2] = << 1, 1, 1, 1, 1 >>] }

RouteInit ==
    /\ \E selected \in StopSequences, grid \in Maps :
          rend = [RendInitState(selected) EXCEPT !.map = grid]
    /\ robs = RobsInitState

\* the planner with the pathfinder's routes and no robot on the line
\* (arduinoConnected stays false): moveRobot() has no request to await and
\* runs to its end in the timer's callback; every arrival is confirmed
RouteNext ==
    \/ RouteStartDelivery
    \/ RendTimer
    \/ RendConfirmTimer
    \/ RendConfirmDelivery

\* a route with its i-th cell repeated: a segment whose two cells are the
\* same
Repeat(w, i) == SubSeq(w, 1, i) \o SubSeq(w, i, Len(w))

DegenerateRoutes ==
    UNION { { Repeat(w, i) : i \in 1..Len(w) } :
               w \in { v \in Routes : Len(v) <= MaxRouteLen } }

\* the mount effect: startDelivery() for a route with a degenerate segment
SegmentStartDelivery ==
    /\ ~rend.started /\ rend.mounted /\ Len(rend.selected) > 0
    /\ \E route \in DegenerateRoutes :
          rend' = startDelivery(rend, PathResult(route, TRUE,
                                    "Successfully planned route visiting", NoCell, "",
                                    Len(rend.selected)))
    /\ UNCHANGED <<robs, fwVars, hostVars, turn>>

\* the planner on routes with a degenerate segment
SegmentNext ==
    \/ SegmentStartDelivery
    \/ RendTimer
    \/ RendConfirmTimer
    \/ RendResume
    \/ RendAdvance
    \/ RendConfirmDelivery
    \/ RendCheckConnection
    \/ RendObstacleEvent

RendNext ==
    \/ RendStartDelivery
    \/ RendTimer
    \/ RendConfirmTimer
    \/ RendResume
    \/ RendAdvance
    \/ RendConfirmDelivery
    \/ RendCheckConnection
    \/ RendObstacleEvent
    \/ RendUnmount

----------------------------------------------------------------------------
(* Part 4: the two turn-angle computations applied to a pair of directions   *)
(* and the angle applied back to the first of them.  Both direction arrays   *)
(* list the compass clockwise from north/up, so a direction is taken by its  *)
(* index.                                                                    *)

TurnInitState(impl, current, target) ==
    [ impl |-> impl,            \* "renderer" or "host"
      current |-> current,      \* index of the current direction, 0..3
      target |-> target,        \* index of the target direction
      pc |-> "input",
      angle |-> 0,              \* what calculateTurnAngle returned
      via |-> "none",           \* the turn update applied
      result |-> "none" ]       \* the direction after it

\* calculateTurnAngle of the implementation is called
TurnCalculate ==
    /\ turn.pc = "input"
    /\ turn' = [turn EXCEPT
                   !.pc = "angle",
                   !.angle = IF turn.impl = "renderer"
                             THEN calculateTurnAngle(
                                      At(RendDirections, turn.current),
                                      At(RendDirections, turn.target))
                             ELSE ArduinoController_calculateTurnAngle(
                                      At(HostDirections, turn.current),
                                      At(HostDirections, turn.target))]
    /\ UNCHANGED <<fwVars, hostVars, rendVars>>

\* the planner's turn update, getNewDirection, is applied to the angle
TurnApply ==
    /\ turn.pc = "angle"
    /\ turn' = [turn EXCEPT
                   !.pc = "out",
                   !.via = "getNewDirection",
                   !.result = getNewDirection(At(RendDirections, turn.current),
                                              turn.angle)]
    /\ UNCHANGED <<fwVars, hostVars, rendVars>>

\* the controller's own turn, turnAngle(), is applied to its angle
TurnApplyHost ==
    /\ turn.pc = "angle" /\ turn.impl = "host"
    /\ LET run == HostRun([HostInitState EXCEPT
                              !.pos.direction = At(HostDirections, turn.current)],
                          HobsInitState,
                          ArduinoController_turnAngle(turn.angle * Milli))
       IN turn' = [turn EXCEPT !.pc = "out",
                               !.via = "turnAngle",
                               !.result = run.h.pos.direction]
    /\ UNCHANGED <<fwVars, hostVars, rendVars>>

TurnInit ==
    \E impl \in {"renderer", "host"}, current \in 0..3, target \in 0..3 :
        turn = TurnInitState(impl, current, target)

TurnNext == TurnCalculate \/ TurnApply \/ TurnApplyHost

----------------------------------------------------------------------------
(* Part 5: the planner and the controller together.  A request of moveRobot() *)
(* is handled by its IPC handler of main/background.ts, which awaits the      *)
(* controller's method and then answers; no telemetry line of the device is   *)
(* delivered to the controller.                                               *)

\* the request moveRobot() waits for, as its handler receives it
PlannerRequest(c) ==
    IF c.pc = "turnIpc" THEN Request("robot-turn-angle", c.angle * Milli)
    ELSE Request("robot-move-distance", 24 * Milli)

\* the handler starts: the controller's method runs to its first wait
IpcServe ==
    /\ rend.call.pc \in {"turnIpc", "moveIpc"}
    /\ ~hobs.serving
    /\ LET run == HostRun(host, [hobs EXCEPT !.serving = TRUE],
                          Handler(host, PlannerRequest(rend.call)))
       IN /\ host' = [run.h EXCEPT !.calls = HostPark(run, host.calls)]
          /\ hobs' = run.o
    /\ UNCHANGED <<fwVars, rendVars, turn>>

\* the controller's method returned: the handler answers { success: true }
IpcReply ==
    /\ rend.call.pc \in {"turnIpc", "moveIpc"}
    /\ hobs.serving /\ host.calls = << >>
    /\ hobs' = [hobs EXCEPT !.serving = FALSE]
    /\ rend' = IpcResolved(rend)
    /\ robs' = Settle(robs, "resolved")
    /\ UNCHANGED <<host, fwVars, turn>>

\* a wait of moveRobot() ends
RendWaitEnd ==
    /\ rend.call.pc \in {"turnWait", "moveWait"}
    /\ RendResume

\* checkConnection(): robot-is-connected answers isArduinoConnected()
DeliveryCheckConnection ==
    /\ rend.mounted
    /\ rend.connected # host.isConnected
    /\ rend' = [rend EXCEPT !.connected = host.isConnected]
    /\ UNCHANGED <<robs, fwVars, hostVars, turn>>

DeliveryNext ==
    \/ RendStartDelivery
    \/ RendTimer
    \/ RendConfirmTimer
    \/ RendConfirmDelivery
    \/ RendAdvance
    \/ RendWaitEnd
    \/ DeliveryCheckConnection
    \/ IpcServe
    \/ IpcReply
    \/ HostResume
    \/ HostPortFound
    \/ HostPortOpen

\* timers fire, promises settle and callbacks run; every arrival is confirmed
DeliveryFairness ==
    /\ WF_vars(RendStartDelivery)
    /\ WF_vars(RendTimer)
    /\ WF_vars(RendConfirmTimer)
    /\ WF_vars(RendConfirmDelivery)
    /\ WF_vars(RendAdvance)
    /\ WF_vars(RendWaitEnd)
    /\ WF_vars(IpcServe)
    /\ WF_vars(IpcReply)
    /\ WF_vars(HostResume)

----------------------------------------------------------------------------
(* Part 6: the device and the controller on the serial link.  The lines the  *)
(* firmware prints reach the 'data' handler of the controller one by one; the *)
(* handler's RESET and the controller's motion commands reach the firmware's  *)
(* Serial buffer.  The handler has run for the lines of a loop() cycle before *)
(* the next cycle's sampling is over (a cycle lasts at least half a second).  *)

\* a printed line cut where the words the handler looks for begin and end
LineParts(line) ==
    IF line = "BLOCKED"
    THEN << "BLOCKED", ": Robot ", "already moving", ". Send RESET if stuck." >>
    ELSE << line >>

\* response.includes(needle), for a needle that is one of those words
includes(line, needle) ==
    \E i \in DOMAIN LineParts(line) : LineParts(line)[i] = needle

\* a handler that sends a RESET for each of the two words it finds
AutoResetPerWord(line) ==
    (IF includes(line, "BLOCKED") THEN << Cmd("RESET", 0) >> ELSE << >>)
        \o (IF includes(line, "already moving") THEN << Cmd("RESET", 0) >> ELSE << >>)

\* the commands the 'data' handler passes to sendCommand() for a line
AutoReset(line) ==
    IF includes(line, "BLOCKED") \/ includes(line, "already moving")
    THEN << Cmd("RESET", 0) >>
    ELSE << >>

\* the motion commands moveDistance() and turnAngle() write
LinkCommands ==
    {Cmd("MOVE_DISTANCE", d) : d \in Distances}
        \cup {Cmd("TURN_ANGLE", a) : a \in Angles}

\* a 'data' handler that takes the firmware's report of a finished movement
\* as the pose update
OnDataConfirmsPose(h, o, line) ==
    LET cmds == IF h.port /\ h.isConnected THEN AutoReset(line) ELSE << >>
    IN [ h |-> IF line = "MOVEMENT_COMPLETE:SUCCESS"
               THEN [h EXCEPT !.pos = updatePositionAfterMove(@, "forward")]
               ELSE h,
         o |-> [o EXCEPT
                   !.blockedLines = IF includes(line, "BLOCKED") /\ h.isConnected
                                    THEN @ + 1 ELSE @,
                   !.autoResets = @ + Len(cmds),
                   !.trigger = IF cmds # << >> THEN line ELSE @,
                   !.written = IF cmds # << >> THEN cmds[Len(cmds)] ELSE @],
         cmds |-> cmds ]

\* the parser's 'data' handler for a line: it logs the line, passes RESET to
\* sendCommand(), which writes only with a port and a connection, when the
\* line has one of its two words, and forwards the obstacle lines
OnData(h, o, line) ==
    LET cmds == IF h.port /\ h.isConnected THEN AutoReset(line) ELSE << >>
    IN [ h |-> h,
         o |-> [o EXCEPT
                   !.blockedLines = IF includes(line, "BLOCKED") /\ h.isConnected
                                    THEN @ + 1 ELSE @,
                   !.autoResets = @ + Len(cmds),
                   !.trigger = IF cmds # << >> THEN line ELSE @,
                   !.written = IF cmds # << >> THEN cmds[Len(cmds)] ELSE @],
         cmds |-> cmds ]

\* the parser's 'data' event for the oldest undelivered line
LinkData ==
    /\ uplink # << >>
    /\ LET d == OnData(host, hobs, Head(uplink))
       IN /\ uplink' = Tail(uplink)
          /\ serialIn' = serialIn \o d.cmds
          /\ host' = d.h
          /\ hobs' = d.o
    /\ UNCHANGED <<dev, now, fpc, sent, idle, single, obs, rendVars, turn>>

\* the lines a telemetry stream is made of
TelemetryLines ==
    {"BLOCKED", "MOVEMENT_COMPLETE:SUCCESS", "OBSTACLE:DETECTED", "OBSTACLE:CLEARED"}

\* the parser's 'data' event for any line, while the controller serves its
\* requests
HostData ==
    /\ host.port
    /\ hobs.autoResets < MaxTelemetry
    /\ \E line \in TelemetryLines :
          LET d == OnData(host, hobs, line)
          IN /\ host' = d.h
             /\ hobs' = d.o
    /\ UNCHANGED <<fwVars, rendVars, turn>>

TelemetryNext ==
    \/ HostRequest
    \/ HostResume
    \/ HostPortFound
    \/ HostPortOpen
    \/ HostPortDown
    \/ HostData

\* a motion command of the controller is written to the port
LinkSend ==
    /\ host.port /\ host.isConnected
    /\ sent < MaxCommands
    /\ Len(serialIn) < MaxSerial
    /\ \E c \in LinkCommands : serialIn' = Append(serialIn, c)
    /\ sent' = sent + 1
    /\ UNCHANGED <<dev, now, fpc, uplink, idle, single, obs, hostVars, rendVars, turn>>

\* a loop() cycle of the firmware begins
LinkSense == uplink = << >> /\ FwSense

LinkNext ==
    \/ LinkSense
    \/ FwCommand
    \/ FwCheck
    \/ LinkSend
    \/ LinkData
    \/ HostPortDown

\* String.toFloat() of the digits the controller printed with toFixed(), as
\* loop() passes them to moveDistance() and turnAngle()
toFloat(c) ==
    CASE c.op = "MOVE_DISTANCE" -> Cmd(c.op, c.arg \div 100)
      [] c.op = "TURN_ANGLE" -> Cmd(c.op, c.arg \div 10)
      [] OTHER -> Cmd(c.op, 0)

\* what a step of the controller gave to port.write(): the handler that made
\* the write is left waiting for its callback, as the n-th of host.calls
Wire(n) ==
    IF n > 0 /\ Len(host'.calls) = n /\ host'.calls[n].wait = "write"
    THEN << toFloat(hobs'.written) >>
    ELSE << >>

\* the cells moveToPosition() is asked for from the start pose: one to the
\* east, one to the west, one ahead
MoveToTargets == { Cell(3, 4), Cell(1, 4), Cell(2, 3) }

\* robot-move-to-position arrives; what its handler writes reaches the
\* firmware's Serial buffer
MoveToRequest ==
    /\ HostServe({Request("robot-move-to-position", c) : c \in MoveToTargets})
    /\ serialIn' = serialIn \o Wire(Len(host.calls) + 1)
    /\ UNCHANGED <<dev, now, fpc, uplink, sent, idle, single, obs, rendVars, turn>>

\* the callback of a write arrives and the handler goes on
MoveToResume ==
    /\ HostDeliver
    /\ serialIn' = serialIn \o Wire(Len(host.calls))
    /\ UNCHANGED <<dev, now, fpc, uplink, sent, idle, single, obs, rendVars, turn>>

\* robot-execute-path arrives with a path of adjacent cells that starts at
\* the controller's cell, while no handler is under way
PathRequest ==
    /\ host.calls = << >>
    /\ HostRequestOf({ Request("robot-execute-path", p) :
                         p \in { w \in WalksFrom(Cell(host.pos.x, host.pos.y),
                                                 MaxRouteLen) : Len(w) >= 2 } })

PathNext ==
    \/ PathRequest
    \/ HostResume
    \/ HostPortFound
    \/ HostPortOpen

MoveToNext ==
    \/ MoveToRequest
    \/ MoveToResume
    \/ LinkSense
    \/ FwCommand
    \/ FwCheck
    \/ LinkData

----------------------------------------------------------------------------
(* Specifications: one part runs, the others rest in their initial state     *)

FwIdle ==
    /\ dev = DevInit
    /\ now = 0
    /\ fpc = "sense"
    /\ serialIn = << >>
    /\ uplink = << >>
    /\ sent = 0
    /\ single = FALSE
    /\ idle = 0
    /\ obs = ObsInit

RendIdle == rend = RendInitState(<< >>) /\ robs = RobsInitState

TurnIdle == turn = TurnInitState("none", 0, 0)

FwNext == FwSense \/ FwCommand \/ FwCheck \/ EnvSend

\* the firmware alone, precision commands, STOP and RESET arriving from its
\* environment
InitFw == FwInit /\ HostInit /\ RendIdle /\ TurnIdle

SpecFw == InitFw /\ [][FwNext]_vars

\* the same while the board is powered: loop() runs again and again, each of
\* its blocks in turn
FwFairness == WF_vars(FwSense) /\ WF_vars(FwCommand) /\ WF_vars(FwCheck)

\* a run that opens with a motion command already written to the link
InitFwLive ==
    /\ dev = DevInit
    /\ now = 0
    /\ fpc = "sense"
    /\ \/ \E c \in { k \in PrecisionCommands :
                        k.op \in {"MOVE_DISTANCE", "TURN_ANGLE"} } :
             serialIn = <<c>> /\ sent = 1 /\ single = FALSE
       \/ \E c \in SingleCommands :
             serialIn = <<c>> /\ sent = MaxCommands /\ single = TRUE
    /\ uplink = << >>
    /\ idle = 0
    /\ obs = ObsInit
    /\ HostInit /\ RendIdle /\ TurnIdle

SpecFwLive == InitFwLive /\ [][FwNext]_vars /\ FwFairness

\* one MOVE_DISTANCE under any accelerometer readings
TiltNext == FwSense \/ FwCommand \/ TiltLoop

InitTilt ==
    /\ dev = DevInit
    /\ now = 0
    /\ fpc = "sense"
    /\ \E d \in Distances : serialIn = << Cmd("MOVE_DISTANCE", d) >>
    /\ sent = MaxCommands
    /\ single = FALSE
    /\ uplink = << >>
    /\ idle = 0
    /\ obs = ObsInit
    /\ HostInit /\ RendIdle /\ TurnIdle

SpecTilt == InitTilt /\ [][TiltNext]_vars

FwLegacyNext == FwNext \/ FwForward \/ EnvSendLegacy

\* the same with the legacy FORWARD, LEFT and RIGHT commands as well
SpecFwLegacy == InitFw /\ [][FwLegacyNext]_vars

\* the host controller under any IPC requests and any link events
InitHost == FwIdle /\ HostInit /\ RendIdle /\ TurnIdle

SpecHost == InitHost /\ [][HostNext]_vars

\* the controller alone, asked with arguments its methods accept and
\* arguments they refuse
InitArg == FwIdle /\ HostInit /\ RendIdle /\ TurnIdle

SpecArg == InitArg /\ [][ArgNext]_vars

\* the controller alone, asked to execute paths from the cell it is on
InitPath == FwIdle /\ HostInit /\ RendIdle /\ TurnIdle

SpecPath == InitPath /\ [][PathNext]_vars

\* the host controller under any IPC requests, any link events and any
\* telemetry stream; the callbacks of its writes come before their timers
\* are due
InitTelemetry == FwIdle /\ HostInit /\ RendIdle /\ TurnIdle

SpecTelemetry == InitTelemetry /\ [][TelemetryNext]_vars

\* the planner on the routes of the pathfinder, for every selection of tables
InitRoute == FwIdle /\ HostInit /\ RouteInit /\ TurnIdle

SpecRoute == InitRoute /\ [][RouteNext]_vars

\* the renderer's planner: its timers, its requests and its environment
InitRend == FwIdle /\ HostInit /\ RendInit /\ TurnIdle

SpecRend == InitRend /\ [][RendNext]_vars

\* the planner given a route one of whose segments joins a cell to itself
InitSegment == FwIdle /\ HostInit /\ RendInit /\ TurnIdle

SpecSegment == InitSegment /\ [][SegmentNext]_vars

\* a delivery with the controller behind the planner's requests: the
\* component stays mounted, no obstacle is reported and the link, once open,
\* stays open
SpecDelivery == InitRend /\ [][DeliveryNext]_vars /\ DeliveryFairness

\* the firmware behind an open port of the controller, which writes motion
\* commands and answers the firmware's lines
InitLink ==
    /\ FwInit
    /\ host = [HostInitState EXCEPT !.port = TRUE, !.isConnected = TRUE]
    /\ hobs = HobsInitState
    /\ RendIdle
    /\ TurnIdle

SpecLink == InitLink /\ [][LinkNext]_vars

\* moveToPosition() of the controller with the firmware behind its open
\* port; all requests but one have been served, each refused for its argument
InitMoveTo ==
    /\ FwIdle
    /\ host = [HostInitState EXCEPT !.port = TRUE, !.isConnected = TRUE]
    /\ hobs = [HobsInitState EXCEPT !.requests = MaxRequests - 1, !.refused = TRUE]
    /\ RendIdle
    /\ TurnIdle

SpecMoveTo == InitMoveTo /\ [][MoveToNext]_vars

\* the turn-angle computations on every pair of directions
InitTurn == FwIdle /\ HostInit /\ RendIdle /\ TurnInit

SpecTurn == InitTurn /\ [][TurnNext]_vars

----------------------------------------------------------------------------
(* Claims about the firmware.  "At the end of an iteration" is fpc = "sense": *)
(* dev.out holds the lines of the iteration that just ended and obs what the  *)
(* observer saw in it.                                                        *)

MotionOps == {"MOVE_DISTANCE", "TURN_ANGLE"}

MotorsStopped == dev.left = Stopped /\ dev.right = Stopped
MotorsForward == dev.left.dir = "fwd" /\ dev.right.dir = "fwd"

\* C1: a MOVE_DISTANCE or TURN_ANGLE starts a motion exactly when the device
\* was IDLE when the command was read; read in MOVING, TURNING or PAUSED it is
\* answered with BLOCKED and starts nothing.
C1_GuardOnlyIdleAccepts ==
    (fpc = "check" /\ obs.cmd \in MotionOps) =>
        IF obs.stateAtRead = "IDLE"
        THEN ~Has(dev.out, "BLOCKED") /\ dev.isMoving /\ dev.currentCommand = obs.cmd
        ELSE Has(dev.out, "BLOCKED") /\ dev.movementStartTime < now

\* C2: a MOVE_DISTANCE paused for an obstacle is resumed once the latch clears:
\* at the end of an iteration a paused move still has the latch active, and a
\* move that is not paused has its motors driven forward.
C2_ResumedWhenLatchClears ==
    fpc = "sense" =>
        /\ obs.state = "PAUSED" => dev.obstacleLatched
        /\ obs.state = "MOVING" => MotorsForward

\* the time the primitive in flight has spent paused, as the wire shows it
ObsPausedSoFar ==
    obs.pausedMs
        + (IF obs.state = "PAUSED"
           THEN (IF obs.cleared THEN obs.clearedAt ELSE now) - obs.pausedAt
           ELSE 0)

\* the longest iteration of loop(): two sampling cycles and delay(10)
TickSlackMs ==
    LoopDelayMs + 2 * (CHOOSE d \in UtsDurations : \A e \in UtsDurations : e <= d)

\* C3: paused time is not progress, and nothing else delays a move: a move in
\* flight is complete once the time since its acceptance, less the time it
\* was paused, exceeds distance x MS_PER_INCH by one iteration, and it is not
\* reported complete before that time has reached distance x MS_PER_INCH.
C3_PausedTimeExcluded ==
    fpc = "sense" =>
        /\ obs.state \in {"MOVING", "PAUSED"} =>
              now - obs.acceptedAt - ObsPausedSoFar
                  <= MoveTimeMs(obs.target) + TickSlackMs
        /\ obs.completed = "MOVE_DISTANCE" =>
              obs.elapsedAtComplete >= MoveTimeMs(obs.completedArg)

\* C4: on an iteration whose precision check finds the latch active during a
\* MOVE_DISTANCE the motors are stopped, the pause has exactly one
\* MOVEMENT_PAUSED:OBSTACLE line, and no MOVEMENT_COMPLETE is printed for the
\* move while the latch is active.
C4_PauseOnLatch ==
    fpc = "sense" =>
        /\ (obs.checked = "MOVE_DISTANCE" /\ obs.latchAtCheck) =>
              /\ MotorsStopped
              /\ ~Has(dev.out, "MOVEMENT_COMPLETE:SUCCESS")
              /\ obs.state = "PAUSED"
        /\ obs.state = "PAUSED" => obs.pauseLines = 1
        /\ Count(dev.out, "MOVEMENT_PAUSED:OBSTACLE") <= 1
        /\ obs.completed = "MOVE_DISTANCE" => ~obs.latchAtCheck

C4_Witness ==
    /\ fpc = "sense"
    /\ obs.checked = "MOVE_DISTANCE"
    /\ obs.latchAtCheck
    /\ Has(dev.out, "MOVEMENT_PAUSED:OBSTACLE")
    /\ obs.pausedAt - obs.acceptedAt >= MoveTimeMs(obs.target)

\* C5: MOVEMENT_COMPLETE:SUCCESS is printed for MOVE_DISTANCE(d) only when the
\* time since acceptance less the paused time has reached d x MS_PER_INCH
\* (whole milliseconds), for TURN_ANGLE(a) only when it has reached
\* |a| / DEGREES_PER_MS, and for 24 inches never before 6000 ms.
C5_NeverEarly ==
    fpc = "sense" =>
        /\ obs.completed = "MOVE_DISTANCE" =>
              /\ (obs.elapsedAtComplete + 1) * MS_PER_INCH_DEN
                     > obs.completedArg * MS_PER_INCH_NUM
              /\ obs.completedArg = 24 => obs.elapsedAtComplete >= 6000
        /\ obs.completed = "TURN_ANGLE" =>
              obs.elapsedAtComplete >= TurnTimeMs(obs.completedArg)
        /\ obs.completed # "spurious"

C5_Witness ==
    /\ fpc = "sense"
    /\ obs.completed = "MOVE_DISTANCE"
    /\ obs.completedArg = 24

\* C6: handling RESET or STOP leaves the device idle with the motors stopped,
\* whatever state it was read in, and the MOVE_DISTANCE or TURN_ANGLE read
\* next is accepted, not BLOCKED.
C6_EscapeHatch ==
    fpc = "check" =>
        /\ obs.cmd \in {"STOP", "RESET"} =>
              ~dev.isMoving /\ MotorsStopped /\ obs.state = "IDLE"
        /\ (obs.cmd \in MotionOps /\ obs.afterEscape # "none") =>
              /\ ~Has(dev.out, "BLOCKED")
              /\ dev.isMoving
              /\ dev.currentCommand = obs.cmd
              /\ dev.movementStartTime = now

C6_Witness ==
    /\ fpc = "check"
    /\ obs.cmd \in MotionOps
    /\ obs.afterEscape \in {"MOVING", "TURNING", "PAUSED"}
    /\ dev.isMoving

----------------------------------------------------------------------------
(* Claims about the renderer's planner, the turn-angle computations and the  *)
(* host controller's pose.                                                   *)

\* the direction of the segment from cell a to the 4-adjacent cell b
SegDir(a, b) ==
    IF b.x > a.x THEN "right"
    ELSE IF b.x < a.x THEN "left"
    ELSE IF b.y > a.y THEN "down"
    ELSE "up"

Clock(d) == CASE d = "up" -> 0 [] d = "right" -> 1 [] d = "down" -> 2 [] OTHER -> 3

\* the minimal signed angle, clockwise positive; a reversal is 180 either way
MinimalSignedAngle(from, to) ==
    LET q == (Clock(to) - Clock(from) + 4) % 4
    IN CASE q = 0 -> 0 [] q = 1 -> 90 [] q = 2 -> 180 [] OTHER -> -90

SameTurn(a, e) == a = e \/ (Abs(a) = 180 /\ Abs(e) = 180)

\* the direction the robot has before segment s of the route
DirBefore(path, s) == IF s = 1 THEN "up" ELSE SegDir(path[s - 1], path[s])

RECURSIVE RequestsOf(_, _)
RequestsOf(log, s) ==
    IF log = << >> THEN << >>
    ELSE IF Head(log).seg = s
    THEN << Head(log) >> \o RequestsOf(Tail(log), s)
    ELSE RequestsOf(Tail(log), s)

\* the requests of segment s are the planned ones: the turn, if any, then the move
SegmentAsPlanned(s) ==
    LET e == MinimalSignedAngle(DirBefore(rend.path, s),
                                SegDir(rend.path[s], rend.path[s + 1]))
        c == RequestsOf(robs.log, s)
    IN IF e = 0
       THEN c = << LogEntry(s, "moveDistance", 24) >>
       ELSE /\ Len(c) = 2
            /\ c[1].op = "turnAngle" /\ SameTurn(c[1].arg, e)
            /\ c[2] = LogEntry(s, "moveDistance", 24)

\* the requests of the segment under way are the planned ones so far
SegmentUnderWay(s) ==
    LET e == MinimalSignedAngle(DirBefore(rend.path, s),
                                SegDir(rend.path[s], rend.path[s + 1]))
        c == RequestsOf(robs.log, s)
    IN \/ c = << >>
       \/ SegmentAsPlanned(s)
       \/ e # 0 /\ Len(c) = 1 /\ c[1].op = "turnAngle" /\ SameTurn(c[1].arg, e)

TurnYieldsTarget ==
    (turn.pc = "out" /\ turn.via = "getNewDirection") =>
        turn.result = At(RendDirections, turn.target)

\* C8 as stated: for every pair of directions calculateTurnAngle is in
\* {-180, -90, 0, 90}, and getNewDirection applied to it yields the target.
C8_AngleInStatedSet ==
    /\ turn.pc \in {"angle", "out"} => turn.angle \in {-180, -90, 0, 90}
    /\ TurnYieldsTarget

\* C8: for every pair of directions the planner's calculateTurnAngle is in
\* {-180, -90, 0, 90, 180} and the controller's in {-90, 0, 90, 180}, and
\* getNewDirection applied to either yields the target.
C8_AngleYieldsTarget ==
    /\ turn.pc \in {"angle", "out"} =>
          turn.angle \in (IF turn.impl = "renderer"
                          THEN {-180, -90, 0, 90, 180}
                          ELSE {-90, 0, 90, 180})
    /\ TurnYieldsTarget

C8_Witness ==
    /\ turn.pc = "out"
    /\ turn.via = "getNewDirection"
    /\ turn.angle = 180
    /\ turn.impl = "host"
    /\ turn.result = At(RendDirections, turn.target)

\* C9: turnAngle(a) of the controller, a a non-zero multiple of 90 in
\* -180..180, turns the facing by a / 90 quarter turns clockwise and leaves the
\* cell alone.
C9_TurnAngleQuarterTurns ==
    (hobs.by = "turnAngle" /\ hobs.arg \in {-180 * Milli, -90 * Milli,
                                           90 * Milli, 180 * Milli}) =>
        /\ hobs.after.direction =
              At(HostDirections,
                 (indexOf(HostDirections, hobs.before.direction)
                    + hobs.arg \div (90 * Milli) + 4) % 4)
        /\ hobs.after.x = hobs.before.x
        /\ hobs.after.y = hobs.before.y

\* C10: the controller's pose is (2,4,north) until its first update and
\* always has 0 <= x <= 4, 0 <= y <= 4 and a cardinal direction.
C10_PoseInGrid ==
    /\ host.pos.x \in 0..4
    /\ host.pos.y \in 0..4
    /\ host.pos.direction \in {"north", "east", "south", "west"}
    /\ hobs.by = "none" => host.pos = [x |-> 2, y |-> 4, direction |-> "north"]

C10_Witness ==
    /\ hobs.by \in {"moveForward", "moveDistance"}
    /\ hobs.before = hobs.after
    /\ host.pos = hobs.after
    /\ host.pos.y = 4
    /\ host.pos.direction = "south"

----------------------------------------------------------------------------
(* Claims about the planner's sequencing *)

\* C11: a motion request is sent only after the wait the planner computes for
\* the request before it has passed: |a| / 120 s + 500 ms after turnAngle(a),
\* and then the request is the segment's moveDistance(24); 24 / 3 s + 500 ms
\* after moveDistance(24).  A request that was rejected has no wait.
C11_WaitBeforeNextCommand ==
    robs.prev.settled \in {"pending", "resolved"} =>
        /\ robs.prev.e.op = "turnAngle" =>
              /\ robs.gap >= (Abs(robs.prev.e.arg) * 1000) \div 120 + 500
              /\ robs.last.e = LogEntry(robs.prev.e.seg, "moveDistance", 24)
        /\ robs.prev.e.op = "moveDistance" =>
              robs.gap >= (24 * 1000) \div 3 + 500

C11_Witness ==
    /\ Len(robs.log) = 3
    /\ robs.log[1].op = "turnAngle"
    /\ robs.log[2] = robs.prev.e
    /\ robs.prev.e.op = "moveDistance"
    /\ robs.prev.settled = "resolved"
    /\ robs.last.e.seg = robs.prev.e.seg + 1
    /\ robs.gap = (24 * 1000) \div 3 + 500

\* C12: a started delivery reaches deliveryStatus "complete" with no telemetry
\* line ever delivered: the planner's requests are answered when the
\* controller's method returns, and that waits for the write only.
C12_CompletesWithoutTelemetry ==
    rend.started ~> rend.status = "complete"

C12_Witness ==
    /\ rend.status = "complete"
    /\ rend.step = Len(rend.path) - 1
    /\ rend.step >= 2
    /\ Len(robs.log) >= 2
    /\ hobs.by = "moveDistance"
    /\ hobs.written.op = "MOVE_DISTANCE"
    /\ FindTable(rend.selected, rend.path[3]) # "none"

----------------------------------------------------------------------------
(* Claims about the device and the controller on the serial link *)

\* C13: in the composed host and device system a motion command that reaches
\* the device while an earlier accepted primitive is executing does not
\* disturb that primitive: the primitive is never ended by anything but its
\* own completion when the controller sends motion commands only.
C13_OverlapLeavesPrimitive ==
    fpc = "check" => obs.escaped \notin {"MOVING", "TURNING"}

\* C14: the controller writes exactly one RESET for every line with "BLOCKED"
\* it receives while connected, and for no other line (the device's answers
\* to a RESET included); once the device has read a RESET it is idle with its
\* motors stopped, and the motion command it reads next is accepted.
C14_AutoRecovery ==
    /\ hobs.autoResets = hobs.blockedLines
    /\ hobs.trigger \in {"none", "BLOCKED"}
    /\ fpc = "check" =>
          /\ obs.cmd = "RESET" =>
                /\ ~dev.isMoving
                /\ ~dev.isPrecisionMode
                /\ ~dev.pausedForObstacle
                /\ MotorsStopped
                /\ ~Has(dev.out, "BLOCKED")
          /\ (obs.cmd \in MotionOps /\ obs.afterEscape # "none") =>
                /\ ~Has(dev.out, "BLOCKED")
                /\ dev.isMoving
                /\ dev.currentCommand = obs.cmd

C14_Witness ==
    /\ hobs.autoResets = 1
    /\ hobs.blockedLines = 1
    /\ hobs.trigger = "BLOCKED"
    /\ uplink = << >>
    /\ fpc = "check"
    /\ obs.cmd \in MotionOps
    /\ obs.afterEscape \in {"MOVING", "TURNING"}
    /\ dev.isMoving

----------------------------------------------------------------------------
(* Claims about the obstacle latch *)

\* C15: the latch becomes active only on a sampling cycle that completes
\* REQUIRED_CONSECUTIVE_HITS consecutive hit cycles, that many consecutive hit
\* cycles leave it active, and a cycle that is not a hit never sets it.
C15_LatchAfterConsecutiveHits ==
    /\ obs.rose => obs.hitRun = REQUIRED_CONSECUTIVE_HITS
    /\ obs.hitRun = REQUIRED_CONSECUTIVE_HITS => dev.obstacleLatched
    /\ obs.kind # "hit" => ~obs.rose

\* C16: an active latch clears only on a sampling cycle that completes
\* REQUIRED_CONSECUTIVE_HITS consecutive clear cycles (all three sensors above
\* trigger plus margin); a cycle with a reading in the band between the two
\* distances interrupts the run and never clears the latch.
C16_ClearAfterConsecutiveClears ==
    /\ obs.fell => obs.clearRun = REQUIRED_CONSECUTIVE_HITS
    /\ obs.kind # "clear" => ~obs.fell

ObstacleLinePrinted == Has(dev.out, "OBSTACLE:DETECTED") \/ Has(dev.out, "OBSTACLE:CLEARED")

----------------------------------------------------------------------------
(* Claims about the firmware's state between iterations of loop() *)

MotionFrame(m) ==
    << m.isMoving, m.currentCommand, m.isPrecisionMode, m.movementStartTime,
       m.targetDistance, m.targetAngle, m.pausedForObstacle, m.totalPausedMs >>

\* the command block answers a MOVE_DISTANCE or TURN_ANGLE with BLOCKED
RejectionStep ==
    /\ fpc = "command"
    /\ serialIn # << >>
    /\ Head(serialIn).op \in MotionOps
    /\ Has(NewLines(dev.out, dev'.out), "BLOCKED")

\* C19: handling a MOVE_DISTANCE or TURN_ANGLE that is answered with BLOCKED
\* leaves the fields of the motion in flight, the motors included, as they
\* were; a primitive that saw such a rejection is complete within one
\* iteration of reaching its target time and is not reported complete before.
C19_RejectionLeavesMotion ==
    /\ [][RejectionStep =>
             /\ MotionFrame(dev') = MotionFrame(dev)
             /\ dev'.left = dev.left /\ dev'.right = dev.right
             /\ dev.isMoving]_vars
    /\ [](fpc = "sense" /\ obs.rejectedInFlight =>
             /\ obs.state = "MOVING" =>
                   now - obs.acceptedAt <= MoveTimeMs(obs.target) + TickSlackMs
             /\ obs.state = "TURNING" =>
                   now - obs.acceptedAt <= TurnTimeMs(obs.target) + TickSlackMs
             /\ obs.completed = "MOVE_DISTANCE" =>
                   obs.elapsedAtComplete >= MoveTimeMs(obs.completedArg)
             /\ obs.completed = "TURN_ANGLE" =>
                   obs.elapsedAtComplete >= TurnTimeMs(obs.completedArg))

C19_Witness ==
    /\ fpc = "sense"
    /\ obs.rejectedInFlight
    /\ obs.completed \in MotionOps
    /\ Has(dev.out, "BLOCKED")
    /\ Has(dev.out, "MOVEMENT_COMPLETE:SUCCESS")

----------------------------------------------------------------------------
(* Claims about the planner's reentrancy guard *)

\* C20: at most one moveRobot() is past its guard at any time; the guard is
\* set exactly while one is, so it is released whenever that call ends, by
\* its end, an early return or a rejected request; a callback of the
\* auto-move timer or of the confirmDelivery timer that runs while a call is
\* in flight sends no request and changes nothing of the delivery.
C20_OneMoveRobotInFlight ==
    /\ [](/\ robs.inFlight <= 1
          /\ rend.ref <=> robs.inFlight = 1
          /\ rend.ref <=> rend.call.pc # "none")
    /\ [][(RendTimer /\ rend.ref) =>
             /\ rend' = [rend EXCEPT !.etimer = NoTimer]
             /\ robs'.log = robs.log /\ robs'.leds = robs.leds]_vars
    /\ [][(RendConfirmTimer /\ rend.ref) =>
             /\ rend' = [rend EXCEPT !.ctimer = NoTimer]
             /\ robs'.log = robs.log /\ robs'.leds = robs.leds]_vars

C20_Witness ==
    /\ robs.skipped
    /\ rend.ref
    /\ robs.inFlight = 1
    /\ rend.call.pc \in {"turnWait", "moveWait"}
    /\ ~rend.etimer.armed
    /\ ~rend.ctimer.armed

----------------------------------------------------------------------------
(* Claims about unmounting the delivery component *)

\* deliveryState and deliveryProgress
DeliveryState(r) ==
    << r.path, r.step, r.pos, r.dir, r.isMoving, r.table, r.showModal, r.status,
       r.completedSteps >>

\* C21: once the component is unmounted no moveRobot() begins and the delivery
\* state is not updated; the moveRobot() in flight is left at its await, ends
\* only when its wait is over (or its request is rejected), and the one
\* request it may still send is the MOVE_DISTANCE that follows its own turn.
C21_CancelBetweenSegments ==
    /\ [][~rend'.mounted =>
             /\ DeliveryState(rend') = DeliveryState(rend)
             /\ robs'.inFlight <= robs.inFlight
             /\ robs'.leds = robs.leds
             /\ robs'.log # robs.log =>
                   /\ rend.call.pc = "turnWait" /\ rend.call.left = 0
                   /\ rend'.call.pc = "moveIpc"
                   /\ robs'.log = Append(robs.log,
                          LogEntry(rend.call.snap.step + 1, "moveDistance", 24))
             /\ (rend.call.pc # "none" /\ rend'.call.pc = "none") =>
                   \/ rend.call.pc = "moveWait" /\ rend.call.left = 0
                   \/ rend.call.pc \in {"turnIpc", "moveIpc"}]_vars
    /\ [][(rend.mounted /\ ~rend'.mounted) => rend'.call = rend.call]_vars
    /\ [](~rend.mounted => ~rend.etimer.armed)

C21_Witness ==
    /\ ~rend.mounted
    /\ rend.call.pc = "none"
    /\ ~rend.ref
    /\ Len(robs.log) = 2
    /\ robs.log[1].op = "turnAngle"
    /\ robs.last.e = LogEntry(rend.step + 1, "moveDistance", 24)
    /\ robs.last.settled = "resolved"
    /\ robs.since = moveWaitTime
    /\ rend.step = 0
    /\ rend.completedSteps = 0

Connected(h) == h.port /\ h.isConnected

\* C22: the promise of sendCommand() is never rejected, whatever the link
\* does (no port, no connection, an error given to the write callback, an
\* exception of write(), a callback that never comes), so that no handler is
\* ended by it; and a sendCommand() made without a connection writes nothing
C22_SendNeverRejects ==
    /\ [](/\ ~hobs.threw
          /\ \A i \in 1..Len(host.calls) :
                /\ host.calls[i].p.state \in {"none", "pending"}
                /\ host.calls[i].wait = "write" <=> host.calls[i].p.state = "pending")
    /\ [][~Connected(host) =>
             /\ hobs'.written = hobs.written
             /\ hobs'.lastSend # hobs.lastSend
                   => hobs'.lastSend \notin {"pending", "exception"}
             /\ hobs'.sendsOwed < hobs.sendsOwed => hobs'.lastSend = "unsent"]_vars

\* write() threw in a handler, which went on to the delay that follows its
\* command
C22_Witness ==
    /\ hobs.lastSend = "exception"
    /\ ~hobs.threw
    /\ Len(host.calls) = 1
    /\ host.calls[1].wait = "delay"
    /\ hobs.requests = 1

SendFailures == {"unsent", "exception", "error", "timeout"}

\* C23: a send that fails (no connection, an exception or an error of the
\* write, no callback) ends no handler: every handler makes each of its
\* sendCommand() calls once and each of its pose updates, moveDistance() and
\* turnAngle() moving the pose by one cell or one quarter turn as they do when
\* the command is delivered
C23_SendFailureDoesNotStop ==
    /\ ~hobs.threw
    /\ hobs.sendsOwed >= 0 /\ hobs.updatesOwed >= 0
    /\ host.calls = << >> => hobs.sendsOwed = 0 /\ hobs.updatesOwed = 0
    /\ hobs.by = "moveDistance" =>
          hobs.after = updatePositionAfterMove(hobs.before, "forward")
    /\ hobs.by = "turnAngle" =>
          hobs.after = updatePositionAfterMove(hobs.before,
                           IF hobs.arg > 0 THEN "right" ELSE "left")

\* moveDistance() has updated the pose after the write of its command failed
C23_Witness ==
    /\ hobs.requests = 1
    /\ host.calls = << >>
    /\ hobs.lastSend \in SendFailures \ {"unsent"}
    /\ hobs.by = "moveDistance"
    /\ hobs.written.op = "MOVE_DISTANCE"
    /\ host.pos = updatePositionAfterMove(HostInitState.pos, "forward")

\* C24: a sendCommand() that has given its command to write() is resolved
\* when its 5 s timer fires at the latest, callback or no callback, and a
\* callback that comes after the promise is settled changes neither the pose
\* nor any handler nor what was written
C24_SendBounded ==
    /\ [](\A i \in 1..Len(host.calls) :
             host.calls[i].wait = "write" =>
                /\ host.calls[i].p.timer
                /\ host.calls[i].p.age <= SendTimeoutMs)
    /\ [][HostLate =>
             /\ host'.pos = host.pos
             /\ host'.calls = host.calls
             /\ hobs' = [hobs EXCEPT !.lastSend = hobs'.lastSend]]_vars

\* moveDistance() went on when the timer of its send fired, and the callback
\* of the write came after that
C24_Witness ==
    /\ hobs.requests = 1
    /\ host.calls = << >>
    /\ hobs.lastSend = "late callback"
    /\ host.lateCallbacks = 0
    /\ hobs.by = "moveDistance"
    /\ host.pos = updatePositionAfterMove(HostInitState.pos, "forward")

\* C25: telemetry is informational only: the 'data' handler leaves the
\* controller's state (pose, connection, waiting handlers) as it was for
\* every line, so that the pose and the commands the handlers write are those
\* of the requests and the link alone; the one thing a line can add is a RESET
\* written to a connected port, and nothing but the 'data' handler counts one
C25_TelemetryInformational ==
    /\ [][HostData =>
             /\ host' = host
             /\ [hobs' EXCEPT !.written = hobs.written, !.autoResets = hobs.autoResets,
                              !.blockedLines = hobs.blockedLines,
                              !.trigger = hobs.trigger] = hobs
             /\ hobs'.written # hobs.written =>
                   /\ hobs'.written = Cmd("RESET", 0)
                   /\ Connected(host)
                   /\ hobs'.autoResets = hobs.autoResets + 1]_vars
    /\ [][hobs'.autoResets # hobs.autoResets => HostData]_vars

\* a BLOCKED line was answered with a RESET in a run in which moveDistance()
\* wrote its command and made its one pose update
C25_Witness ==
    /\ hobs.requests = 1
    /\ hobs.autoResets = 1
    /\ hobs.trigger = "BLOCKED"
    /\ hobs.by = "moveDistance"
    /\ hobs.lastSend = "written"
    /\ host.calls = << >>
    /\ host.pos = updatePositionAfterMove(HostInitState.pos, "forward")

\* how often a route passes the cell c
Visits(path, c) == Cardinality({i \in 1..Len(path) : path[i] = c})

RoutePlanned == rend.started /\ rend.map = RESTAURANT_MAP /\ rend.step = 0 /\ ~rend.back

\* C26: on RESTAURANT_MAP the route startDelivery() stores passes the cell of
\* each selected table exactly once
C26_EachStopOnce ==
    RoutePlanned =>
        \A k \in 1..Len(rend.selected) :
            Visits(rend.path, TABLE_POSITIONS[rend.selected[k]]) = 1

Adjacent(a, b) == Abs(a.x - b.x) + Abs(a.y - b.y) = 1

WellFormed(grid, path) ==
    /\ Len(path) >= 2
    /\ path[1] = ROBOT_START_POSITION
    /\ path[Len(path)] = ROBOT_START_POSITION
    /\ \A i \in 1..Len(path) :
          /\ path[i].x \in 0..(Len(grid[1]) - 1)
          /\ path[i].y \in 0..(Len(grid) - 1)
          /\ grid[path[i].y + 1][path[i].x + 1] = 0
    /\ \A i \in 1..(Len(path) - 1) : Adjacent(path[i], path[i + 1])

\* C27: on RESTAURANT_MAP findPath() succeeds from the start to the cell of
\* every table and findDeliveryRoute() succeeds for every selection of up to
\* three tables; the route stored starts and ends at ROBOT_START_POSITION,
\* lies on walkable cells of the grid and goes from each cell to a 4-adjacent
\* one
C27_RouteWellFormed ==
    (rend.started /\ rend.map = RESTAURANT_MAP) =>
        /\ ~rend.back
        /\ WellFormed(rend.map, rend.path)
        /\ \A k \in 1..Len(rend.selected) :
              LET toTable == findPath(rend.map, ROBOT_START_POSITION,
                                      TABLE_POSITIONS[rend.selected[k]])
              IN /\ toTable.success
                 /\ toTable.path[1] = ROBOT_START_POSITION
                 /\ toTable.path[Len(toTable.path)] = TABLE_POSITIONS[rend.selected[k]]
                 /\ \E i \in 1..Len(rend.path) :
                       rend.path[i] = TABLE_POSITIONS[rend.selected[k]]

\* the route of a delivery to three tables was planned and a segment of it
\* has been driven
C27_Witness ==
    /\ rend.started /\ rend.map = RESTAURANT_MAP
    /\ rend.selected = << "T1", "T8", "T4" >>
    /\ Len(rend.path) > 10
    /\ rend.step = 1

\* the cells a walk over walkable cells can reach from a set of them
RECURSIVE Flood(_, _)
Flood(grid, cells) ==
    LET more == cells \cup
                { d \in UNION { Neighbours(c) : c \in cells } :
                     isValidPosition(grid, d.x, d.y) }
    IN IF more = cells THEN cells ELSE Flood(grid, more)

HasPath(grid, from, to) ==
    /\ isValidPosition(grid, from.x, from.y)
    /\ to \in Flood(grid, {from})

\* the stops of the selection that have no path from the point before them,
\* by their place in the selection
Unreachable(r) ==
    LET stops == tablePositions(r.selected)
    IN { k \in 1..Len(stops) :
            ~HasPath(r.map, IF k = 1 THEN ROBOT_START_POSITION ELSE stops[k - 1],
                     stops[k]) }

\* C28: when a stop of the selection has no path from the point before it,
\* startDelivery() shows a message with the coordinates of the first such
\* stop and goes back to the selection; it stores no route, arms no timer and
\* starts no moveRobot(), and no request is ever sent to the controller
C28_UnreachableStartsNothing ==
    (rend.started /\ Unreachable(rend) # {}) =>
        LET k == CHOOSE i \in Unreachable(rend) : \A j \in Unreachable(rend) : i <= j
        IN /\ rend.back
           /\ rend.alert.text = "Cannot reach table at"
           /\ rend.alert.at = TABLE_POSITIONS[rend.selected[k]]
           /\ rend.alert.why \in {"No path found", "Invalid goal position"}
           /\ rend.path = << >>
           /\ ~rend.isMoving
           /\ ~rend.etimer.armed /\ ~rend.ctimer.armed
           /\ rend.call = NoCall /\ ~rend.ref
           /\ rend.pos = ROBOT_START_POSITION
           /\ robs.log = << >> /\ robs.leds = << >>

\* the second table of a selection is cut off from the first by the closed
\* aisle: the delivery was refused with its coordinates
C28_Witness ==
    /\ rend.started /\ rend.back
    /\ rend.map # RESTAURANT_MAP
    /\ rend.selected = << "T7", "T1", "T8" >>
    /\ rend.alert.at = Cell(1, 0)
    /\ rend.alert.why = "No path found"
    /\ robs.log = << >>

TiltDriving ==
    /\ dev.isMoving /\ dev.currentCommand = "MOVE_DISTANCE"
    /\ dev.left.dir = "fwd"

\* C29: while a MOVE_DISTANCE drives, for every reading of the accelerometer
\* over the range of int16_t, both PWM values lie in 100..255, the lower of
\* the two is the precision speed less a common reduction of at most 10, the
\* other exceeds it by a boost of at most 30 (so at most one motor is
\* boosted), and with x within tolerance of normalX both are the same
C29_TiltCorrectionBounded ==
    TiltDriving =>
        LET lo == Min(dev.left.pwm, dev.right.pwm)
            hi == Max(dev.left.pwm, dev.right.pwm)
        IN /\ dev.right.dir = "fwd"
           /\ dev.left.pwm \in 100..255 /\ dev.right.pwm \in 100..255
           /\ precisionSpeed - lo \in 0..10
           /\ hi - lo \in 0..30
           /\ (obs.acc.ok /\ Abs(obs.acc.x - normalX) <= tolerance)
                 => dev.left.pwm = dev.right.pwm
           /\ ~obs.acc.ok => dev.left.pwm = precisionSpeed /\ dev.right.pwm = precisionSpeed

\* the lowest x, for which x - normalX overflows, with a y past the cap of
\* the reduction: the right motor has the full boost, both the full reduction
C29_Witness ==
    /\ TiltDriving
    /\ obs.acc.ok /\ obs.acc.x = IntMin /\ obs.acc.y = 62 /\ obs.acc.ub = Wraps
    /\ dev.left.pwm = precisionSpeed - 10
    /\ dev.right.pwm = precisionSpeed - 10 + 30

\* loop() is about to handle a RESET
ResetRead == fpc = "command" /\ serialIn # << >> /\ Head(serialIn).op = "RESET"

\* what RESET assigns: the movement flags and both motor outputs
ResetFrame(m) ==
    << m.isMoving, m.isPrecisionMode, m.pausedForObstacle, m.currentCommand,
       m.left, m.right >>

AfterReset(m) == ResetFrame(m) = << FALSE, FALSE, FALSE, "STOP", Stopped, Stopped >>

\* C30: a RESET read while the robot is idle leaves it idle and both motor
\* outputs as they were, which is stopped; every RESET leaves the same flags
\* and outputs, and one read in that state, as the second of two RESETs in a
\* row is, changes nothing of the firmware's state but the lines it prints
C30_ResetIdempotent ==
    /\ [][ResetRead =>
             /\ AfterReset(dev')
             /\ ~dev.isMoving =>
                   /\ dev.left = Stopped /\ dev.right = Stopped
                   /\ dev'.left = dev.left /\ dev'.right = dev.right
             /\ AfterReset(dev) => [dev' EXCEPT !.out = dev.out] = dev]_vars
    /\ [](obs.resetTwice /\ fpc = "check" => AfterReset(dev))
    /\ [][(ResetRead /\ obs.lastReset) =>
             /\ AfterReset(dev)
             /\ [dev' EXCEPT !.out = dev.out] = dev]_vars

\* two RESETs in a row have been handled, the first of them while idle
C30_Witness ==
    /\ obs.resetTwice
    /\ sent = 2 /\ serialIn = << >>
    /\ fpc = "check"
    /\ obs.stateAtRead = "IDLE"
    /\ AfterReset(dev)

----------------------------------------------------------------------------
\* C31: a request with an argument its method is documented to ignore
\* (moveDistance with inches <= 0, turnAngle(0), tableArrived/tableReceived
\* with a table number outside 1..3) changes nothing: no command is given to
\* the port, no handler is left waiting and the pose stays as it was
C31_InvalidRequestsIgnored ==
    [][(hobs'.requests = hobs.requests + 1 /\ hobs'.refused) =>
          /\ host' = host
          /\ hobs' = [hobs EXCEPT !.requests = @ + 1, !.refused = TRUE]]_vars

\* a refused request was handled while the port was open, after a move was
\* written to it and the pose had left the start cell
C31_Witness ==
    /\ hobs.refused /\ Connected(host)
    /\ hobs.written.op = "MOVE_DISTANCE"
    /\ host.pos # HostInitState.pos

----------------------------------------------------------------------------
\* C32: the MOVE_DISTANCE that moveToPosition() writes after a turn is never
\* answered with BLOCKED because the firmware is still turning
C32_MoveAfterTurnNotBlocked ==
    ~(obs.cmd = "MOVE_DISTANCE" /\ ~obs.accepted /\ obs.stateAtRead = "TURNING")

----------------------------------------------------------------------------
\* C33: a delivery does not stall on a segment whose two cells are the same:
\* while the planner stands before such a segment with the delivery moving,
\* no obstacle reported and no moveRobot() under way, a moveRobot() is
\* scheduled
AtDegenerateSegment(r) ==
    /\ r.step + 2 <= Len(r.path)
    /\ r.path[r.step + 1] = r.path[r.step + 2]
    /\ r.pos = r.path[r.step + 1]

----------------------------------------------------------------------------
\* C34: once the commands of a path of adjacent cells that starts at the
\* controller's cell have been executed, the pose is the path's last cell,
\* facing the way of its last segment
C34_PathTracksFacing ==
    (/\ hobs.goal.direction # "none"
     /\ host.calls = << >> /\ hobs.updatesOwed = 0 /\ ~hobs.threw)
        => host.pos = hobs.goal

----------------------------------------------------------------------------
\* C35: with the Arduino connected for every segment so far and no request
\* rejected, after each completed moveRobot() segment the controller's pose
\* is the planner's pose, up/right/down/left read as north/east/south/west
Compass(dir) ==
    CASE dir = "up" -> "north"
      [] dir = "right" -> "east"
      [] dir = "down" -> "south"
      [] OTHER -> "west"

C35_PoseModelsAgree ==
    (/\ rend.started /\ rend.completedSteps > 0
     /\ rend.call.pc = "none" /\ ~robs.dirty)
        => host.pos = [x |-> rend.pos.x, y |-> rend.pos.y,
                       direction |-> Compass(rend.dir)]

----------------------------------------------------------------------------
\* C36: no moveRobot() begins a segment while an obstacle is reported,
\* whether the auto-move effect or confirmDelivery() scheduled it
C36_NoSegmentWhileObstructed == ~robs.ungated

----------------------------------------------------------------------------
\* C37: while the robot stands at a selected table with the arrival modal
\* shown, no moveRobot() begins a segment: the next one starts only after
\* confirmDelivery()
C37_ArrivalWaitsForConfirm == ~robs.unconfirmed

----------------------------------------------------------------------------
\* C38: an accepted MOVE_DISTANCE or TURN_ANGLE does not stay in the moving
\* state.  At the top of every loop() iteration isMoving implies
\* isPrecisionMode, so the last block of loop() calls checkPrecisionMovement()
\* for it; and while loop() keeps running a motion whose target time lies
\* within the run ends with isMoving false, with no RESET needed
TickMs == 490 + LoopDelayMs

TargetTimeMs(m) ==
    IF m.currentCommand = "MOVE_DISTANCE" THEN MoveTimeMs(m.targetDistance)
    ELSE TurnTimeMs(m.targetAngle)

EndsWithinRun ==
    dev.movementStartTime + TargetTimeMs(dev) + TickMs
        <= (IF single THEN MaxLongTime ELSE MaxTime)

----------------------------------------------------------------------------
\* C39: a TURN_ANGLE that was accepted is neither paused nor stopped by the
\* obstacle latch.  While it is in flight the motors keep turning and no
\* MOVEMENT_PAUSED line is printed; the last block of loop() ends it with
\* MOVEMENT_COMPLETE:SUCCESS in the first iteration entered TurnTimeMs(angle)
\* or more after the turn was accepted, and in no earlier one, whatever the
\* sensors read and whether or not an earlier move was paused
TurnInFlight == obs.state = "TURNING"

TurnDue == now - obs.acceptedAt >= TurnTimeMs(obs.target)

C39_TurnsIgnoreObstacles ==
    /\ [](TurnInFlight =>
            /\ dev.isMoving /\ dev.isPrecisionMode
            /\ dev.currentCommand = "TURN_ANGLE"
            /\ dev.left.pwm = turnSpeed /\ dev.right.pwm = turnSpeed
            /\ obs.pauseLines = 0)
    /\ [][TurnInFlight => obs'.state \in {"TURNING", "IDLE"}]_vars
    /\ [][TurnInFlight /\ fpc = "check" =>
            IF TurnDue
            THEN /\ obs'.completed = "TURN_ANGLE"
                 /\ obs'.elapsedAtComplete = now - obs.acceptedAt
                 /\ ~dev'.isMoving
                 /\ dev'.left = Stopped /\ dev'.right = Stopped
            ELSE /\ obs'.state = "TURNING"
                 /\ obs'.completed = "none"
                 /\ dev' = dev]_vars

\* a turn completes with the latch set and the pause of an earlier move on record
C39_Witness ==
    /\ obs.completed = "TURN_ANGLE"
    /\ dev.obstacleLatched /\ dev.pausedForObstacle

----------------------------------------------------------------------------
\* C40: MOVEMENT_COMPLETE:SUCCESS is printed at most once for an accepted
\* MOVE_DISTANCE or TURN_ANGLE and for nothing else.  Every such line ends a
\* primitive that is in flight, accepted and not yet completed, stopped or
\* reset; it comes no earlier than the target time of that primitive, counted
\* from its own acceptance, and leaves isMoving and isPrecisionMode false, so
\* the completion check does not run for it again
CompletedTargetMs ==
    IF obs.completed = "MOVE_DISTANCE" THEN MoveTimeMs(obs.completedArg)
    ELSE TurnTimeMs(obs.completedArg)

C40_CompletionAtMostOnce ==
    /\ [](obs.completed # "spurious")
    /\ [](obs.completed \in {"MOVE_DISTANCE", "TURN_ANGLE"} =>
            /\ obs.elapsedAtComplete >= CompletedTargetMs
            /\ obs.state = "IDLE"
            /\ ~dev.isMoving /\ ~dev.isPrecisionMode)
    /\ [][obs'.completed # "none" /\ obs'.completed # obs.completed =>
            /\ fpc = "check"
            /\ obs.state \in {"MOVING", "TURNING"}
            /\ obs'.completedArg = obs.target]_vars

\* a primitive completes after a command sent during it was answered BLOCKED
C40_Witness ==
    /\ obs.completed \in {"MOVE_DISTANCE", "TURN_ANGLE"}
    /\ obs.rejectedInFlight

====
